---- MODULE Spec2Model ----
\* A model of the metalink downloader: plan construction and minimization
\* (types.rs), the worker-pool / file-writer pipeline of `download` and the
\* older chunked `segregrated_download` (http.rs).
EXTENDS Integers, Sequences, FiniteSets, TLC

\* ---------------------------------------------------------------- bounds

\* Largest file size (bytes) of a manifest entry in the planning inputs.
MaxTotalSize == 3
\* Largest piece length (bytes) of a manifest entry in the planning inputs.
MaxBlockSize == 2
\* Largest number of files of a manifest in the planning inputs.
MaxFiles == 2
\* Largest total size and block size handed to the range calculation alone.
MaxRangeSize == 16
\* Largest size (bytes) of the file a download run fetches.
MaxDownloadSize == 5
\* Largest max_threads argument of a download run.
MaxThreads == 3
\* Largest number of files of the manifest of a whole download-metalink run.
MaxRunFiles == 2
\* Largest max_parallel_files argument of a download-metalink run.
MaxParallelFiles == 2
\* Largest length (bytes) of a buffer or file handed to a checksum validation alone.
MaxDataLen == 2

\* ---------------------------------------------------------------- values

\* Option<T>: None is the empty tuple, Some(x) the one-element tuple.
None == <<>>
Some(x) == <<x>>
Unwrap(o) == o[1]

\* The byte a freshly extended file region holds (File::set_len zero-fills).
ZeroByte == 0

\* The byte the origin server holds at offset i of every file.
ContentByte(i) == 1 + (i % 2)

Min(a, b) == IF a < b THEN a ELSE b

\* The true bytes [start, end] (inclusive offsets) of a file.
ContentBytes(start, end) == [i \in 1..(end - start + 1) |-> ContentByte(start + i - 1)]

\* A buffer of n bytes the origin never holds (a corrupted transfer, a stale
\* disk region).
CorruptBytes(n) == [i \in 1..n |-> 3]

\* ---------------------------------------------------------------- checksums

SupportedHashTypes == {"md2", "md5", "sha-1", "sha-224", "sha-256", "sha-384", "sha-512"}

\* Position of a hash function in the enum's derived ordering.
HashRank(hash_type) ==
    CASE hash_type = "md2" -> 0
      [] hash_type = "md5" -> 1
      [] hash_type = "sha-1" -> 2
      [] hash_type = "sha-224" -> 3
      [] hash_type = "sha-256" -> 4
      [] hash_type = "sha-384" -> 5
      [] hash_type = "sha-512" -> 6
      [] hash_type = "shake128" -> 7
      [] hash_type = "shake256" -> 8

\* The digest of a byte buffer: a deterministic function of the algorithm and
\* of every byte in order (a positional hash standing for the digest crates).
RECURSIVE DigestFrom(_, _)
DigestFrom(h, data) ==
    IF data = <<>> THEN h
    ELSE DigestFrom((h * 5 + Head(data) + 1) % 65521, Tail(data))

Digest(hash_type, data) == DigestFrom(HashRank(hash_type) + 1, data)

CheckSum_new(hash_type, checksum) == [hash_type |-> hash_type, checksum |-> checksum]

\* CheckSum::calculate_checksum: the hex digest of the data; -1 marks the
\* unimplemented!() arm of the SHAKE algorithms.
CheckSum_calculate_checksum(self, data) ==
    IF self.hash_type \in SupportedHashTypes
    THEN Digest(self.hash_type, data)
    ELSE -1

\* Whether hashing with this checksum's algorithm reaches the `_ =>
\* unimplemented!()` arm of calculate_checksum / calculate_file_checksum, which
\* panics.
CheckSum_unimplemented(self) == self.hash_type \notin SupportedHashTypes

\* CheckSum::validate_checksum
CheckSum_validate_checksum(self, data) ==
    CheckSum_calculate_checksum(self, data) = self.checksum

\* CheckSum::validate_file_checksum: the whole file is hashed; an unreadable
\* (absent) file does not validate.
CheckSum_validate_file_checksum(self, file_on_disk) ==
    IF file_on_disk = None THEN FALSE
    ELSE CheckSum_calculate_checksum(self, Unwrap(file_on_disk)) = self.checksum

\* ---------------------------------------------------------------- chunks

ChunkMetaData_new(start, end, filename) ==
    [start |-> start, end |-> end, checksum |-> None, filename |-> filename]

has_checksum(chunk) == chunk.checksum # None

chunk_size(chunk) == chunk.end - chunk.start + 1

\* A checksum test that accepts every buffer.
validate_checksum_always(chunk, bytes) ==
    IF chunk.checksum = None THEN None ELSE Some(TRUE)

\* ChunkMetaData::validate_checksum: None without a checksum.
validate_checksum(chunk, bytes) ==
    IF chunk.checksum = None THEN None
    ELSE Some(CheckSum_validate_checksum(Unwrap(chunk.checksum), bytes))

\* What File::read returns after seeking to `start`: at most `n` bytes, fewer
\* when the file ends first (a regular file is read in one call).
ReadAt(file, start, n) ==
    IF start >= Len(file) THEN <<>>
    ELSE SubSeq(file, start + 1, Min(start + n, Len(file)))

\* ChunkMetaData::is_valid_on_disk
is_valid_on_disk(chunk, file) ==
    IF chunk.checksum # None
    THEN LET buffer == ReadAt(file, chunk.start, chunk_size(chunk))
         IN  IF Len(buffer) # chunk_size(chunk) THEN FALSE
             ELSE CheckSum_validate_checksum(Unwrap(chunk.checksum), buffer)
    ELSE FALSE

\* Whether ChunkMetaData::is_valid_on_disk panics: the chunk's bytes were read
\* in full and hashing them is unimplemented.
is_valid_on_disk_panics(chunk, file) ==
    /\ chunk.checksum # None
    /\ Len(ReadAt(file, chunk.start, chunk_size(chunk))) = chunk_size(chunk)
    /\ CheckSum_unimplemented(Unwrap(chunk.checksum))

\* A range calculation whose block end is one past the block (off by one).
RECURSIVE calculate_ranges_overlapping(_, _, _, _, _)
calculate_ranges_overlapping(remaining_size, current_pos, block_size, filename, ranges) ==
    IF remaining_size > block_size
    THEN calculate_ranges_overlapping(remaining_size - block_size, current_pos + block_size,
             block_size, filename,
             Append(ranges, ChunkMetaData_new(current_pos, current_pos + block_size, filename)))
    ELSE Append(ranges,
             ChunkMetaData_new(current_pos, current_pos + remaining_size - 1, filename))

\* A range calculation whose loop also runs when exactly one block remains
\* (>= for >), leaving an empty remainder for the final push.
RECURSIVE calculate_ranges_eager(_, _, _, _, _)
calculate_ranges_eager(remaining_size, current_pos, block_size, filename, ranges) ==
    IF remaining_size >= block_size
    THEN calculate_ranges_eager(remaining_size - block_size, current_pos + block_size,
             block_size, filename,
             Append(ranges, ChunkMetaData_new(current_pos, current_pos + block_size - 1, filename)))
    ELSE Append(ranges,
             ChunkMetaData_new(current_pos, current_pos + remaining_size - 1, filename))

\* The loop of ChunkMetaData::calculate_ranges and its final push.
RECURSIVE calculate_ranges_loop(_, _, _, _, _)
calculate_ranges_loop(remaining_size, current_pos, block_size, filename, ranges) ==
    IF remaining_size > block_size
    THEN calculate_ranges_loop(remaining_size - block_size, current_pos + block_size,
             block_size, filename,
             Append(ranges, ChunkMetaData_new(current_pos, current_pos + block_size - 1, filename)))
    ELSE Append(ranges,
             ChunkMetaData_new(current_pos, current_pos + remaining_size - 1, filename))

\* ChunkMetaData::calculate_ranges
calculate_ranges(total_size, block_size, filename) ==
    calculate_ranges_loop(total_size, 0, block_size, filename, <<>>)

\* Result<T>: Ok(v) or Err.
Ok(v) == [ok |-> TRUE, val |-> <<v>>]
Err == [ok |-> FALSE, val |-> <<>>]
OkVal(r) == r.val[1]

\* A conversion that zips the piece hashes onto the ranges without comparing
\* the counts: zip stops at the shorter of the two.
to_chunk_metadata_unchecked(pieces, filename, total_size) ==
    LET ranges == calculate_ranges(total_size, pieces.length, filename)
    IN  Ok([i \in 1..Len(ranges) |->
            IF i <= Len(pieces.hashes)
            THEN [ranges[i] EXCEPT !.checksum =
                     Some(CheckSum_new(pieces.hash_type, pieces.hashes[i].value))]
            ELSE ranges[i]])

\* ChunkMetaData::to_chunk_metadata: the ranges with the piece hashes zipped
\* on, or Err when the counts differ.
to_chunk_metadata(pieces, filename, total_size) ==
    LET ranges == calculate_ranges(total_size, pieces.length, filename)
    IN  IF Len(ranges) # Len(pieces.hashes) THEN Err
        ELSE Ok([i \in 1..Len(ranges) |->
                 [ranges[i] EXCEPT !.checksum =
                     Some(CheckSum_new(pieces.hash_type, pieces.hashes[i].value))]])

\* ---------------------------------------------------------------- plans

\* Path::join of a directory and a relative file name: the path of that name
\* inside the directory.
Path_join(base, name) == <<base, name>>

\* metalink::FileUrl
FileUrl_new(url, priority) == [url |-> url, priority |-> priority]

\* A choice that keeps the first hash that declares a type, whatever its
\* algorithm.
StrongestHash_first_typed(hashes) ==
    LET typed == SelectSeq(hashes, LAMBDA h : h.hash_type # None)
    IN  IF typed = <<>> THEN None
        ELSE Some(CheckSum_new(Unwrap(typed[1].hash_type), typed[1].value))

\* The hash FilePlan::new keeps: among the hashes that declare a type, the one
\* of greatest algorithm rank (Iterator::max_by_key keeps the last maximum).
StrongestHash(hashes) ==
    LET typed == SelectSeq(hashes, LAMBDA h : h.hash_type # None)
    IN  IF typed = <<>> THEN None
        ELSE LET i == CHOOSE i \in 1..Len(typed) :
                          /\ \A j \in 1..Len(typed) :
                                 HashRank(Unwrap(typed[j].hash_type)) <= HashRank(Unwrap(typed[i].hash_type))
                          /\ \A j \in (i + 1)..Len(typed) :
                                 HashRank(Unwrap(typed[j].hash_type)) < HashRank(Unwrap(typed[i].hash_type))
             IN  Some(CheckSum_new(Unwrap(typed[i].hash_type), typed[i].value))

\* A url choice that takes the url of best priority (the lowest number, a url
\* without priority last) instead of the first one.
best_priority_url(urls) ==
    LET best == CHOOSE i \in 1..Len(urls) :
                    \A j \in 1..Len(urls) :
                        urls[j].priority # None =>
                            /\ urls[i].priority # None
                            /\ Unwrap(urls[i].priority) <= Unwrap(urls[j].priority)
    IN  urls[best].url

\* urls.first().unwrap().url() on a non-empty url list.
first_url(urls) == Head(urls).url

\* FilePlan::new from its match on file.pieces() on: `chunks` is what the
\* match gave, Ok(chunk list), Ok(None) without pieces, or the error.
FilePlan_new_with(file, base_download_dir, chunks) ==
    LET target_file == Path_join(base_download_dir, file.name)
        file_size == file.size
        file_checksums == IF file.hashes # None THEN StrongestHash(Unwrap(file.hashes)) ELSE None
    IN  IF ~chunks.ok THEN Err
        ELSE IF file.urls = None THEN Err
        ELSE IF Unwrap(file.urls) = <<>> THEN Err
        ELSE Ok([target_file |-> target_file,
                 url |-> first_url(Unwrap(file.urls)),
                 file_checksums |-> file_checksums,
                 chunks |-> IF OkVal(chunks) = None THEN None ELSE Some(OkVal(chunks)),
                 file_size |-> file_size])

\* FilePlan::new
FilePlan_new(file, base_download_dir) ==
    LET target_file == Path_join(base_download_dir, file.name)
        file_size == file.size
        chunks == IF file.pieces # None
                  THEN (IF file_size = None THEN Err
                        ELSE to_chunk_metadata(Unwrap(file.pieces), target_file, Unwrap(file_size)))
                  ELSE Ok(None)
    IN  FilePlan_new_with(file, base_download_dir, chunks)

RECURSIVE SumSeq(_)
SumSeq(s) == IF s = <<>> THEN 0 ELSE Head(s) + SumSeq(Tail(s))

\* Plan::new on a loaded manifest: every file's plan, or the first error.
Plan_new(loaded_metalink, target_dir) ==
    LET built == [i \in 1..Len(loaded_metalink) |-> FilePlan_new(loaded_metalink[i], target_dir)]
    IN  IF \E i \in 1..Len(built) : ~built[i].ok THEN Err
        ELSE LET files == [i \in 1..Len(built) |-> OkVal(built[i])]
             IN  Ok([files |-> files,
                     total_size |-> SumSeq([i \in 1..Len(files) |->
                         IF files[i].file_size = None THEN 0 ELSE Unwrap(files[i].file_size)])])

\* A filter that keeps the chunks that are valid on disk (inverted test).
minimize_chunks_inverted(chunks, file_on_disk) ==
    SelectSeq(chunks, LAMBDA chunk : is_valid_on_disk(chunk, file_on_disk))

\* The chunk loop of minimize_plan: the chunks that are not valid on disk.
minimize_chunks(chunks, file_on_disk) ==
    SelectSeq(chunks, LAMBDA chunk : ~is_valid_on_disk(chunk, file_on_disk))

\* A minimization that never looks at the whole-file checksum of a file
\* without chunks.
minimize_file_no_file_checksum(file, fs) ==
    IF fs[file.target_file] = None THEN <<file>>
    ELSE IF file.chunks # None
    THEN LET minimized_chunks == minimize_chunks(Unwrap(file.chunks), Unwrap(fs[file.target_file]))
         IN  IF minimized_chunks # <<>>
             THEN <<[file EXCEPT !.chunks = Some(minimized_chunks)]>>
             ELSE <<>>
    ELSE <<file>>

\* A minimization that treats a file on disk that has neither chunks nor a
\* whole-file checksum as done and drops it.
minimize_file_drops_unverifiable(file, fs) ==
    IF fs[file.target_file] = None THEN <<file>>
    ELSE IF file.chunks # None
    THEN LET minimized_chunks == minimize_chunks(Unwrap(file.chunks), Unwrap(fs[file.target_file]))
         IN  IF minimized_chunks # <<>>
             THEN <<[file EXCEPT !.chunks = Some(minimized_chunks)]>>
             ELSE <<>>
    ELSE IF file.file_checksums # None
    THEN (IF ~CheckSum_validate_file_checksum(Unwrap(file.file_checksums), fs[file.target_file])
          THEN <<file>>
          ELSE <<>>)
    ELSE <<>>

\* A minimization that keeps a file with chunks even when none of its chunks
\* is left to download.
minimize_file_keeps_empty(file, fs) ==
    IF fs[file.target_file] = None THEN <<file>>
    ELSE IF file.chunks # None
    THEN LET minimized_chunks == minimize_chunks(Unwrap(file.chunks), Unwrap(fs[file.target_file]))
         IN  <<[target_file |-> file.target_file,
                url |-> file.url,
                file_checksums |-> file.file_checksums,
                chunks |-> Some(minimized_chunks),
                file_size |-> file.file_size]>>
    ELSE IF file.file_checksums # None
    THEN (IF ~CheckSum_validate_file_checksum(Unwrap(file.file_checksums), fs[file.target_file])
          THEN <<file>>
          ELSE <<>>)
    ELSE <<file>>

\* One iteration of minimize_plan's file loop: the file as it is kept (a
\* one-element sequence) or nothing when it is dropped.
minimize_file(file, fs) ==
    IF fs[file.target_file] = None THEN <<file>>
    ELSE IF file.chunks # None
    THEN LET minimized_chunks == minimize_chunks(Unwrap(file.chunks), Unwrap(fs[file.target_file]))
         IN  IF minimized_chunks # <<>>
             THEN <<[target_file |-> file.target_file,
                     url |-> file.url,
                     file_checksums |-> file.file_checksums,
                     chunks |-> Some(minimized_chunks),
                     file_size |-> file.file_size]>>
             ELSE <<>>
    ELSE IF file.file_checksums # None
    THEN (IF ~CheckSum_validate_file_checksum(Unwrap(file.file_checksums), fs[file.target_file])
          THEN <<file>>
          ELSE <<>>)
    ELSE <<file>>

\* A file loop that puts every kept file in front of the ones kept before it.
RECURSIVE minimize_files_reversed(_, _)
minimize_files_reversed(files, fs) ==
    IF files = <<>> THEN <<>>
    ELSE minimize_files_reversed(Tail(files), fs) \o minimize_file(Head(files), fs)

RECURSIVE minimize_files(_, _)
minimize_files(files, fs) ==
    IF files = <<>> THEN <<>>
    ELSE minimize_file(Head(files), fs) \o minimize_files(Tail(files), fs)

\* A size that counts a kept file in full even when only some of its chunks
\* remain (what Plan::new adds for the file).
remaining_size_whole_file(file) ==
    Unwrap(file.file_size)

\* The size a kept file adds to total_size; a file without chunks and without
\* a size makes file_size.unwrap() panic.
remaining_size(file) ==
    IF file.chunks # None
    THEN SumSeq([i \in 1..Len(Unwrap(file.chunks)) |-> chunk_size(Unwrap(file.chunks)[i])])
    ELSE Unwrap(file.file_size)

\* Plan::minimize_plan
minimize_plan(self, fs) ==
    LET files == minimize_files(self.files, fs)
    IN  IF \E i \in 1..Len(files) : files[i].chunks = None /\ files[i].file_size = None
        THEN [panicked |-> TRUE, files |-> files, total_size |-> 0]
        ELSE [panicked |-> FALSE, files |-> files,
              total_size |-> SumSeq([i \in 1..Len(files) |-> remaining_size(files[i])])]

\* How the file loop of minimize_plan ends early at one file: "io" when the
\* file has chunks, is on disk and cannot be opened or read (the target files
\* in `unreadable`), "panic" when a checksum is hashed with an unimplemented
\* algorithm, "none" otherwise.
MinimizeFileFault(file, fs, unreadable) ==
    IF fs[file.target_file] = None THEN "none"
    ELSE IF file.chunks # None
    THEN (IF file.target_file \in unreadable THEN "io"
          ELSE IF \E i \in 1..Len(Unwrap(file.chunks)) :
                      is_valid_on_disk_panics(Unwrap(file.chunks)[i], Unwrap(fs[file.target_file]))
          THEN "panic"
          ELSE "none")
    ELSE IF file.file_checksums # None /\ CheckSum_unimplemented(Unwrap(file.file_checksums))
    THEN "panic"
    ELSE "none"

\* The first early end of the file loop, in plan order.
RECURSIVE MinimizeFault(_, _, _)
MinimizeFault(files, fs, unreadable) ==
    IF files = <<>> THEN "none"
    ELSE LET fault == MinimizeFileFault(Head(files), fs, unreadable)
         IN  IF fault # "none" THEN fault
             ELSE MinimizeFault(Tail(files), fs, unreadable)

\* ---------------------------------------------------------------- state

VARIABLES
    metalink,    \* the loaded manifest: a sequence of file descriptors
    fs,          \* the target directory: file name -> Option<bytes>
    plan,        \* Result<Plan> of Plan::new
    minimized,   \* the minimized plan
    pc,          \* where the command stands
    range_args,  \* the arguments of a direct calculate_ranges call
    range_ret    \* Option<ranges>: what that call returned

VARIABLES
    max_threads, \* the max_threads argument of the run
    call,        \* Option<arguments of the running download call>
    dpc,         \* where the body of download stands
    next_job,    \* index into ranges of the next chunk download enqueues
    job_queue,   \* the bounded job channel: indices of the queued chunks
    workers,     \* worker -> [st, job, attempt]
    job_done,    \* chunk -> state of its oneshot completion channel
    inbox,       \* the writer's unbounded command channel
    writer,      \* state of the file writer task
    bytes_written, \* the writer's byte counter
    progressed,  \* total of the Progressed(n) updates sent
    cancelled,   \* whether the cancellation token is cancelled
    result,      \* what download returned: "none" until it returns
    fetches,     \* chunk -> range requests completed for it
    forwarded,   \* chunk -> the WriteFileChunk commands sent for it
    job_error    \* chunk -> why its job failed, "none" if it has not

VARIABLES
    max_parallel_files, \* the max_parallel_files argument of the run
    cur_file,    \* index (in the minimized plan) of the file the loop is at
    client,      \* whether make_http_client has been called
    started,     \* the files whose download_file_task was started, in order
    in_progress, \* the files whose download_file_task has not returned yet
    run_result,  \* what download_metalink returned: "none" until it returns
    prog_inbox,  \* the progress reporter's unbounded channel of updates
    bytes_downloaded, \* the progress reporter's running total
    reporter,    \* state of the progress reporter task
    check_args,  \* the arguments of a direct checksum validation
    check_ret    \* Option<outcome>: how that validation ended

VARIABLES
    hash_input,  \* the string a hash-function name is parsed from
    hash_parsed, \* Option<[by, ret]>: the parsing function called and its Result
    hash_text,   \* Option<[by, text]>: how the parsed variant was formatted
    hash_reparsed, \* Option<[by, ret]>: the Result of parsing the formatted text
    builder,     \* the FileBuilder: its fields as set so far
    build_ret    \* Option<Result<File>>: what FileBuilder::build returned

VARIABLES
    overflow_checks,   \* whether the build checks integer overflow (debug) or wraps (release)
    cr_remaining_size, \* calculate_ranges: its local remaining_size
    cr_current_pos,    \* calculate_ranges: its local current_pos
    cr_ranges          \* calculate_ranges: its local ranges

planVars == <<metalink, fs, plan, minimized, pc>>
planInputVars == <<metalink, plan, minimized>>
rangeVars == <<range_args, range_ret>>
dispatchVars == <<call, dpc, next_job, cancelled, result>>
workerVars == <<job_queue, workers, job_done, fetches, forwarded, job_error>>
writerVars == <<inbox, writer, bytes_written, progressed>>
downloadVars == <<max_threads, dispatchVars, workerVars, writerVars>>
runVars == <<max_parallel_files, cur_file, client, started, in_progress, run_result>>
progVars == <<prog_inbox, bytes_downloaded, reporter>>
checkVars == <<check_args, check_ret>>
nameVars == <<hash_input, hash_parsed, hash_text, hash_reparsed>>
builderVars == <<builder, build_ret>>
loopVars == <<overflow_checks, cr_remaining_size, cr_current_pos, cr_ranges>>
libVars == <<nameVars, builderVars, loopVars>>
vars == <<planVars, rangeVars, downloadVars, runVars, progVars, checkVars, libVars>>

\* ---------------------------------------------------------------- inputs

\* The number of pieces a truthful manifest lists for a file.
NumPieces(size, length) == (size + length - 1) \div length

PieceStart(i, length) == (i - 1) * length
PieceEnd(i, size, length) == Min(i * length, size) - 1

\* The pieces element of a truthful manifest: one sha-256 digest of the
\* origin's bytes per piece.
ManifestPieces(size, length) ==
    [hash_type |-> "sha-256", length |-> length,
     hashes |-> [i \in 1..NumPieces(size, length) |->
        [hash_type |-> Some("sha-256"),
         value |-> Digest("sha-256", ContentBytes(PieceStart(i, length), PieceEnd(i, size, length)))]]]

\* The whole-file hashes of a truthful manifest, a weaker one first.
ManifestHashes(size) ==
    <<[hash_type |-> Some("md5"), value |-> Digest("md5", ContentBytes(0, size - 1))],
      [hash_type |-> Some("sha-512"), value |-> Digest("sha-512", ContentBytes(0, size - 1))]>>

\* The url list of a manifest: the first url is not the one of best priority
\* (a lower number is a higher priority).
ManifestUrls == <<FileUrl_new("url1", Some(2)), FileUrl_new("url2", Some(1))>>

\* The target directory of the run.
TargetDir == "dl"

FileKinds == {"pieces", "hashes", "bare"}

\* Whole-file hashes of which the strongest is a SHAKE digest.
ShakeHashes(size) ==
    <<[hash_type |-> Some("sha-512"), value |-> Digest("sha-512", ContentBytes(0, size - 1))],
      [hash_type |-> Some("shake128"), value |-> Digest("shake128", ContentBytes(0, size - 1))]>>

\* The kinds of file descriptor that lack a part: the size (with and without
\* pieces), the url list, every url; and the kind hashed with SHAKE.
OddKinds == {"nosize", "pieces_nosize", "nourls", "emptyurls", "shake"}

\* A file descriptor of the manifest.
Descriptor(name, kind, size, length) ==
    [name |-> name,
     size |-> IF kind \in {"nosize", "pieces_nosize"} THEN None ELSE Some(size),
     pieces |-> IF kind \in {"pieces", "pieces_nosize"}
                THEN Some(ManifestPieces(size, length)) ELSE None,
     hashes |-> IF kind = "hashes" THEN Some(ManifestHashes(size))
                ELSE IF kind = "shake" THEN Some(ShakeHashes(size))
                ELSE None,
     urls |-> IF kind = "nourls" THEN None
              ELSE IF kind = "emptyurls" THEN Some(<<>>)
              ELSE Some(ManifestUrls)]

\* A file on disk of the full size whose pieces in `bad` hold stale bytes.
DiskWith(bad, size, length) ==
    [k \in 1..size |-> IF ((k - 1) \div length) + 1 \in bad THEN 3 ELSE ContentByte(k - 1)]

\* What the target directory may hold for a file before the run: nothing, a
\* file cut short by one byte, or a full-size file with any set of stale pieces
\* (for a file without pieces: intact or stale as a whole).
DiskStates(kind, size, length) ==
    {None, Some(ContentBytes(0, size - 2))}
    \cup IF kind = "pieces"
         THEN {Some(DiskWith(bad, size, length)) : bad \in SUBSET (1..NumPieces(size, length))}
         ELSE {Some(ContentBytes(0, size - 1)), Some(CorruptBytes(size))}

\* The (kind, disk state) pairs a file of the planning inputs is drawn from.
FileInputs(size, length, kindSet) ==
    UNION {{<<kind, d>> : d \in DiskStates(kind, size, length)} : kind \in kindSet}

RangesIdle == range_args = <<0, 0>> /\ range_ret = None

\* No download call has been made.
NoDownload ==
    /\ call = None
    /\ dpc = "idle"
    /\ next_job = 1
    /\ job_queue = <<>>
    /\ workers = <<>>
    /\ job_done = <<>>
    /\ inbox = <<>>
    /\ writer = "none"
    /\ bytes_written = 0
    /\ progressed = 0
    /\ cancelled = FALSE
    /\ result = "none"
    /\ fetches = <<>>
    /\ forwarded = <<>>
    /\ job_error = <<>>

\* download_metalink has not begun its work on the plan.
NoRun ==
    /\ cur_file = 1
    /\ client = FALSE
    /\ started = <<>>
    /\ in_progress = {}
    /\ run_result = "none"
    /\ prog_inbox = <<>>
    /\ bytes_downloaded = 0
    /\ reporter = "none"

\* No checksum validation is called directly.
NoValidation == check_args = <<>> /\ check_ret = None

\* No call of calculate_ranges is being followed step by step; the build
\* checks overflow.
NoRangeLoop ==
    /\ overflow_checks = TRUE
    /\ cr_remaining_size = 0
    /\ cr_current_pos = 0
    /\ cr_ranges = <<>>

\* No hash-function name is converted and no file element is being built.
NoLibraryCall ==
    /\ hash_input = ""
    /\ hash_parsed = None
    /\ hash_text = None
    /\ hash_reparsed = None
    /\ builder = [name |-> None, size |-> None, url |-> None, metaurl |-> None]
    /\ build_ret = None

\* The planning inputs: a manifest of n files and a target directory.
PlanInputs(sizes, lengths, counts, kindSet) ==
    \E size \in sizes, length \in lengths, n \in counts :
        \E inputs \in [1..n -> FileInputs(size, length, kindSet)] :
            /\ metalink = [i \in 1..n |-> Descriptor(i, inputs[i][1], size, length)]
            /\ fs = [p \in {Path_join(TargetDir, i) : i \in 1..n} |-> inputs[p[2]][2]]
            /\ plan = Err
            /\ minimized = [panicked |-> FALSE, files |-> <<>>, total_size |-> 0]
            /\ pc = "start"

\* ---------------------------------------------------------------- planning

\* Plan::new(metalink_file, target_dir)
PlanNew ==
    /\ pc = "start"
    /\ plan' = Plan_new(metalink, TargetDir)
    /\ pc' = IF plan'.ok THEN "planned" ELSE "failed"
    /\ UNCHANGED <<metalink, fs, minimized, rangeVars, runVars, checkVars, progVars, libVars, downloadVars>>

\* The target files minimize_plan opens and reads chunk by chunk.
OpenedFiles ==
    {OkVal(plan).files[i].target_file : i \in
        {i \in 1..Len(OkVal(plan).files) :
            /\ fs[OkVal(plan).files[i].target_file] # None
            /\ OkVal(plan).files[i].chunks # None}}

\* plan.minimize_plan(): Ok(plan), an I/O error of File::open, seek or read on
\* one of the files it opens (the first such file ends the call, so one
\* unreadable file at a time covers every outcome), or a panic.
MinimizePlan ==
    /\ pc = "planned"
    /\ \E unreadable \in {{}} \cup {{t} : t \in OpenedFiles} :
        LET fault == MinimizeFault(OkVal(plan).files, fs, unreadable)
        IN  IF fault = "none"
            THEN /\ minimized' = minimize_plan(OkVal(plan), fs)
                 /\ pc' = IF minimized'.panicked THEN "panicked" ELSE "minimized"
            ELSE /\ minimized' = minimized
                 /\ pc' = IF fault = "io" THEN "failed" ELSE "panicked"
    /\ UNCHANGED <<metalink, fs, plan, rangeVars, runVars, checkVars, progVars, libVars, downloadVars>>

InitPlan ==
    /\ PlanInputs(1..MaxTotalSize, 1..MaxBlockSize, 1..MaxFiles, FileKinds)
    /\ RangesIdle
    /\ max_threads = 2
    /\ NoDownload
    /\ max_parallel_files = 1
    /\ NoRun
    /\ NoValidation
    /\ NoLibraryCall
    /\ NoRangeLoop

NextPlan == PlanNew \/ MinimizePlan

\* The plan command: Plan::new, then minimize_plan, on every planning input.
SpecPlan == InitPlan /\ [][NextPlan]_vars

\* ---------------------------------------------------------------- FilePlan::new

\* The url lists of a manifest file: absent, empty, one url, and two urls in
\* either order of priority or without one.
UrlLists ==
    {None, Some(<<>>),
     Some(<<FileUrl_new("url1", Some(1))>>),
     Some(<<FileUrl_new("url1", Some(2)), FileUrl_new("url2", Some(1))>>),
     Some(<<FileUrl_new("url2", Some(1)), FileUrl_new("url1", Some(2))>>),
     Some(<<FileUrl_new("url2", None), FileUrl_new("url1", Some(1))>>)}

\* The algorithms a pieces element declares in these manifests.
PiecesTypes == {"md5", "sha-256"}

\* A pieces element of the given algorithm: one digest per piece of a file of
\* the given size.
PiecesOfType(hash_type, size, length) ==
    [hash_type |-> hash_type, length |-> length,
     hashes |-> [i \in 1..NumPieces(size, length) |->
        [hash_type |-> Some(hash_type),
         value |-> Digest(hash_type, ContentBytes(PieceStart(i, length), PieceEnd(i, size, length)))]]]

\* A hash element of a manifest file, with or without a type attribute.
ManifestHash(hash_type, size) ==
    [hash_type |-> hash_type,
     value |-> Digest(IF hash_type = None THEN "sha-256" ELSE Unwrap(hash_type), ContentBytes(0, size - 1))]

\* The hash lists of a manifest file: absent, empty, typed hashes in either
\* order of strength, hashes without a type alone and among typed ones,
\* SHAKE digests, and the same algorithm twice.
HashLists ==
    {None, Some(<<>>),
     Some(ManifestHashes(1)),
     Some(<<ManifestHash(Some("sha-512"), 1), ManifestHash(Some("md5"), 1)>>),
     Some(<<ManifestHash(Some("sha-1"), 1), ManifestHash(Some("sha-384"), 1), ManifestHash(Some("md2"), 1)>>),
     Some(<<ManifestHash(None, 1)>>),
     Some(<<ManifestHash(None, 1), ManifestHash(Some("sha-224"), 1), ManifestHash(None, 1)>>),
     Some(<<ManifestHash(Some("shake128"), 1), ManifestHash(Some("shake256"), 1),
            ManifestHash(Some("sha-512"), 1)>>),
     Some(<<ManifestHash(Some("sha-256"), 1), ManifestHash(Some("sha-256"), 2)>>)}

\* The plan command on a manifest of one file whose size, pieces (of any size
\* and piece length, matching the size or not), hashes and urls are each
\* present or absent, the file being on disk or not.
InitFilePlan ==
    /\ \E size \in {None} \cup {Some(n) : n \in 1..MaxTotalSize},
          pieces \in {None} \cup {Some(PiecesOfType(t, n, l)) :
                                     t \in PiecesTypes, n \in 1..MaxTotalSize, l \in 1..MaxBlockSize},
          hashes \in HashLists,
          urls \in UrlLists,
          disk \in {None, Some(ContentBytes(0, 0))} :
        /\ metalink = <<[name |-> 1, size |-> size, pieces |-> pieces,
                         hashes |-> hashes, urls |-> urls]>>
        /\ fs = [p \in {Path_join(TargetDir, 1)} |-> disk]
    /\ plan = Err
    /\ minimized = [panicked |-> FALSE, files |-> <<>>, total_size |-> 0]
    /\ pc = "start"
    /\ RangesIdle
    /\ max_threads = 2
    /\ NoDownload
    /\ max_parallel_files = 1
    /\ NoRun
    /\ NoValidation
    /\ NoLibraryCall
    /\ NoRangeLoop

NextFilePlan == PlanNew \/ MinimizePlan

SpecFilePlan == InitFilePlan /\ [][NextFilePlan]_vars

\* ---------------------------------------------------------------- FilePlan::new, step by step

\* u64 subtraction of 1 without overflow checks: 0 - 1 wraps to 2^64 - 1,
\* written -1 here (its value as a two's-complement number; TLC's integers
\* do not reach 2^64).
wrapping_sub_one(x) == IF x = 0 THEN 0 - 1 ELSE x - 1

\* The ranges the memory of the process holds: more than any file of these
\* manifests has; a push beyond it fails to allocate and aborts the process.
MaxRanges == MaxTotalSize + 1

\* Plan::new on the one file of the manifest, in FilePlan::new up to the loop
\* of calculate_ranges: no pieces, so no chunks and the plan is built; pieces
\* without a size, an error; otherwise to_chunk_metadata calls
\* calculate_ranges, which sets up its locals.
FilePlanNewBegin ==
    /\ pc = "start"
    /\ LET file == metalink[1]
       IN  IF file.pieces = None
           THEN /\ plan' = Plan_new(metalink, TargetDir)
                /\ pc' = IF plan'.ok THEN "planned" ELSE "failed"
                /\ UNCHANGED <<cr_remaining_size, cr_current_pos, cr_ranges>>
           ELSE IF file.size = None
           THEN /\ plan' = Err
                /\ pc' = "failed"
                /\ UNCHANGED <<cr_remaining_size, cr_current_pos, cr_ranges>>
           ELSE /\ cr_remaining_size' = Unwrap(file.size)
                /\ cr_current_pos' = 0
                /\ cr_ranges' = <<>>
                /\ pc' = "loop"
                /\ UNCHANGED plan
    /\ UNCHANGED <<metalink, fs, minimized, rangeVars, downloadVars, runVars, checkVars, progVars,
                   nameVars, builderVars, overflow_checks>>

\* One round of the while loop of calculate_ranges: current_pos + block_size
\* - 1 underflows when both are 0 (a panic with overflow checks, a wrap
\* without); the push aborts the process when memory is exhausted.
RangeLoopIteration ==
    /\ pc = "loop"
    /\ LET block_size == Unwrap(metalink[1].pieces).length
           filename == Path_join(TargetDir, metalink[1].name)
       IN  /\ cr_remaining_size > block_size
           /\ IF cr_current_pos + block_size = 0 /\ overflow_checks
              THEN /\ pc' = "panicked"
                   /\ UNCHANGED <<cr_remaining_size, cr_current_pos, cr_ranges>>
              ELSE IF Len(cr_ranges) >= MaxRanges
              THEN /\ pc' = "aborted"
                   /\ UNCHANGED <<cr_remaining_size, cr_current_pos, cr_ranges>>
              ELSE /\ cr_ranges' = Append(cr_ranges,
                          ChunkMetaData_new(cr_current_pos,
                              wrapping_sub_one(cr_current_pos + block_size), filename))
                   /\ cr_current_pos' = cr_current_pos + block_size
                   /\ cr_remaining_size' = cr_remaining_size - block_size
                   /\ UNCHANGED pc
    /\ UNCHANGED <<metalink, fs, plan, minimized, rangeVars, downloadVars, runVars, checkVars, progVars,
                   nameVars, builderVars, overflow_checks>>

\* The push after the loop of calculate_ranges: current_pos + remaining_size
\* - 1 underflows when both are 0.
RangeFinalPush ==
    /\ pc = "loop"
    /\ LET block_size == Unwrap(metalink[1].pieces).length
           filename == Path_join(TargetDir, metalink[1].name)
       IN  /\ ~(cr_remaining_size > block_size)
           /\ IF cr_current_pos + cr_remaining_size = 0 /\ overflow_checks
              THEN /\ pc' = "panicked"
                   /\ UNCHANGED cr_ranges
              ELSE /\ cr_ranges' = Append(cr_ranges,
                          ChunkMetaData_new(cr_current_pos,
                              wrapping_sub_one(cr_current_pos + cr_remaining_size), filename))
                   /\ pc' = "zip"
    /\ UNCHANGED <<metalink, fs, plan, minimized, rangeVars, downloadVars, runVars, checkVars, progVars,
                   nameVars, builderVars, overflow_checks, cr_remaining_size, cr_current_pos>>

\* to_chunk_metadata after calculate_ranges has returned, and FilePlan::new
\* and Plan::new after it: the count of the ranges is compared with that of
\* the piece hashes, the hashes are zipped on, and the plan is built.
ZipPieceHashes ==
    /\ pc = "zip"
    /\ LET file == metalink[1]
           pieces == Unwrap(file.pieces)
           chunks == IF Len(cr_ranges) # Len(pieces.hashes) THEN Err
                     ELSE Ok([i \in 1..Len(cr_ranges) |->
                              [cr_ranges[i] EXCEPT !.checksum =
                                  Some(CheckSum_new(pieces.hash_type, pieces.hashes[i].value))]])
           built == FilePlan_new_with(file, TargetDir, chunks)
       IN  /\ plan' = IF built.ok
                      THEN Ok([files |-> <<OkVal(built)>>, total_size |-> Unwrap(file.size)])
                      ELSE Err
           /\ pc' = IF built.ok THEN "planned" ELSE "failed"
    /\ UNCHANGED <<metalink, fs, minimized, rangeVars, downloadVars, runVars, checkVars, progVars,
                   nameVars, builderVars, loopVars>>

\* The piece lengths and sizes of these manifests, 0 among them.
PieceLengths == 0..MaxBlockSize
FileSizes == 0..MaxTotalSize

\* The plan command on a manifest of one file with urls whose size is absent
\* or any of FileSizes and whose pieces are absent or have any of
\* PieceLengths and any number of hashes, built with or without overflow
\* checks.
InitPieces ==
    /\ \E size \in {None} \cup {Some(n) : n \in FileSizes},
          pieces \in {None} \cup {[PiecesOfType("sha-256", n, 1) EXCEPT !.length = l] :
                                     n \in 1..MaxTotalSize, l \in PieceLengths} :
        /\ metalink = <<[name |-> 1, size |-> size,
                         pieces |-> IF pieces = None THEN None ELSE Some(pieces),
                         hashes |-> None, urls |-> Some(ManifestUrls)]>>
        /\ fs = [p \in {Path_join(TargetDir, 1)} |-> None]
    /\ plan = Err
    /\ minimized = [panicked |-> FALSE, files |-> <<>>, total_size |-> 0]
    /\ pc = "start"
    /\ RangesIdle
    /\ max_threads = 2
    /\ NoDownload
    /\ max_parallel_files = 1
    /\ NoRun
    /\ NoValidation
    /\ NoLibraryCall
    /\ overflow_checks \in BOOLEAN
    /\ cr_remaining_size = 0
    /\ cr_current_pos = 0
    /\ cr_ranges = <<>>

NextPieces == FilePlanNewBegin \/ RangeLoopIteration \/ RangeFinalPush \/ ZipPieceHashes

SpecPieces == InitPieces /\ [][NextPieces]_vars

\* ---------------------------------------------------------------- ranges

PlanIdle ==
    /\ metalink = <<>>
    /\ fs = <<>>
    /\ plan = Err
    /\ minimized = [panicked |-> FALSE, files |-> <<>>, total_size |-> 0]
    /\ pc = "ranges"

\* ChunkMetaData::calculate_ranges(total_size, block_size, filename)
CalculateRanges ==
    /\ pc \in {"ranges", "download_file"}
    /\ range_ret = None
    /\ range_ret' = Some(calculate_ranges(range_args[1], range_args[2], Path_join(TargetDir, 1)))
    /\ UNCHANGED <<planVars, range_args, downloadVars, runVars, checkVars, progVars, libVars>>

InitRanges ==
    /\ PlanIdle
    /\ range_args \in (1..MaxRangeSize) \X (1..MaxRangeSize)
    /\ range_ret = None
    /\ max_threads = 2
    /\ NoDownload
    /\ max_parallel_files = 1
    /\ NoRun
    /\ NoValidation
    /\ NoLibraryCall
    /\ NoRangeLoop

NextRanges == CalculateRanges

\* calculate_ranges applied to every total size and block size in bounds.
SpecRanges == InitRanges /\ [][NextRanges]_vars

\* ---------------------------------------------------------------- checksum validation

\* Every name of HashFunctionTextualName.
HashTypes == SupportedHashTypes \cup {"shake128", "shake256"}

\* The byte buffers of at most n bytes.
Buffers(n) == UNION {[1..k -> 1..3] : k \in 0..n}

\* CheckSum::validate_checksum(data) on a buffer, or
\* CheckSum::validate_file_checksum(path) on a file that may be absent: "true"
\* or "false" as returned, or "panic" when the algorithm's match arm is
\* unimplemented!() (matched before the file is opened or anything is hashed).
Validate ==
    /\ pc = "validate"
    /\ check_ret = None
    /\ LET self == check_args.checksum
           returned == IF check_args.on = "bytes"
                       THEN CheckSum_validate_checksum(self, Unwrap(check_args.data))
                       ELSE CheckSum_validate_file_checksum(self, check_args.data)
       IN  check_ret' = Some(IF CheckSum_unimplemented(self) THEN "panic"
                             ELSE IF returned THEN "true" ELSE "false")
    /\ UNCHANGED <<planVars, rangeVars, downloadVars, runVars, check_args, progVars, libVars>>

\* A checksum of any algorithm whose expected digest is the data's or another
\* one, validated against a buffer or against a file, present or absent.
InitChecksum ==
    /\ metalink = <<>>
    /\ fs = <<>>
    /\ plan = Err
    /\ minimized = [panicked |-> FALSE, files |-> <<>>, total_size |-> 0]
    /\ pc = "validate"
    /\ RangesIdle
    /\ max_threads = 2
    /\ NoDownload
    /\ max_parallel_files = 1
    /\ NoRun
    /\ \E hash_type \in HashTypes, on \in {"bytes", "file"}, matches \in BOOLEAN :
       \E data \in {Some(b) : b \in Buffers(MaxDataLen)} \cup {None} :
           /\ on = "bytes" => data # None
           /\ data = None => matches
           /\ check_args =
                  [checksum |-> CheckSum_new(hash_type,
                                    IF data = None THEN Digest(hash_type, <<>>)
                                    ELSE Digest(hash_type, Unwrap(data)) + (IF matches THEN 0 ELSE 1)),
                   on |-> on, data |-> data]
    /\ check_ret = None
    /\ NoLibraryCall
    /\ NoRangeLoop

NextChecksum == Validate

SpecChecksum == InitChecksum /\ [][NextChecksum]_vars

\* ---------------------------------------------------------------- hash-function names

\* Err(e) of a Result whose error is the enum variant e.
ErrOf(e) == [ok |-> FALSE, val |-> <<e>>]

\* <HashFunctionTextualName as FromStr>::from_str
HashFunctionTextualName_from_str(s) ==
    CASE s = "md2" -> Ok("Md2")
      [] s = "md5" -> Ok("Md5")
      [] s = "sha-1" -> Ok("Sha1")
      [] s = "sha-224" -> Ok("Sha224")
      [] s = "sha-256" -> Ok("Sha256")
      [] s = "sha-384" -> Ok("Sha384")
      [] s = "sha-512" -> Ok("Sha512")
      [] s = "shake128" -> Ok("Shake128")
      [] s = "shake256" -> Ok("Shake256")
      [] OTHER -> ErrOf("HashParseError")

\* <HashFunctionTextualName as TryFrom<&str>>::try_from
HashFunctionTextualName_try_from(value) ==
    CASE value = "md2" -> Ok("Md2")
      [] value = "md5" -> Ok("Md5")
      [] value = "sha-1" -> Ok("Sha1")
      [] value = "sha-224" -> Ok("Sha224")
      [] value = "sha-256" -> Ok("Sha256")
      [] value = "sha-384" -> Ok("Sha384")
      [] value = "sha-512" -> Ok("Sha512")
      [] value = "shake128" -> Ok("Shake128")
      [] value = "shake256" -> Ok("Shake256")
      [] OTHER -> ErrOf("HashParseError")

\* A formatting that writes the SHA names without their hyphen.
HashFunctionTextualName_into_str_unhyphenated(value) ==
    CASE value = "Md2" -> "md2"
      [] value = "Md5" -> "md5"
      [] value = "Sha1" -> "sha1"
      [] value = "Sha224" -> "sha224"
      [] value = "Sha256" -> "sha256"
      [] value = "Sha384" -> "sha384"
      [] value = "Sha512" -> "sha512"
      [] value = "Shake128" -> "shake128"
      [] value = "Shake256" -> "shake256"

\* <&'static str as From<HashFunctionTextualName>>::from
HashFunctionTextualName_into_str(value) ==
    CASE value = "Md2" -> "md2"
      [] value = "Md5" -> "md5"
      [] value = "Sha1" -> "sha-1"
      [] value = "Sha224" -> "sha-224"
      [] value = "Sha256" -> "sha-256"
      [] value = "Sha384" -> "sha-384"
      [] value = "Sha512" -> "sha-512"
      [] value = "Shake128" -> "shake128"
      [] value = "Shake256" -> "shake256"

\* <HashFunctionTextualName as Display>::fmt: the text written.
HashFunctionTextualName_fmt(self) == HashFunctionTextualName_into_str(self)

\* The (name, variant) pairs of the registry.
HASH_NAMES ==
    <<<<"md2", "Md2">>, <<"md5", "Md5">>, <<"sha-1", "Sha1">>, <<"sha-224", "Sha224">>,
      <<"sha-256", "Sha256">>, <<"sha-384", "Sha384">>, <<"sha-512", "Sha512">>,
      <<"shake128", "Shake128">>, <<"shake256", "Shake256">>>>

\* The strings parsed: the registry's names and strings that are none of
\* them (unknown, empty, other case, other punctuation, padded).
NameStrings ==
    {HASH_NAMES[k][1] : k \in 1..Len(HASH_NAMES)}
    \cup {"", "xyz", "MD5", "Sha256", "sha1", "sha256", "sha-3", "shake-128", "md5 "}

\* What a parsing function returns for a string.
ParseBy(by, s) ==
    IF by = "from_str" THEN HashFunctionTextualName_from_str(s)
    ELSE HashFunctionTextualName_try_from(s)

\* s.parse::<HashFunctionTextualName>() or HashFunctionTextualName::try_from(s)
ParseName ==
    /\ pc = "names"
    /\ hash_parsed = None
    /\ \E by \in {"from_str", "try_from"} :
           hash_parsed' = Some([by |-> by, ret |-> ParseBy(by, hash_input)])
    /\ UNCHANGED <<planVars, rangeVars, downloadVars, runVars, checkVars, progVars, builderVars, loopVars,
                   hash_input, hash_text, hash_reparsed>>

\* format!("{}", variant) or <&'static str>::from(variant) of the parsed variant.
FormatName ==
    /\ pc = "names"
    /\ hash_parsed # None
    /\ Unwrap(hash_parsed).ret.ok
    /\ hash_text = None
    /\ \E by \in {"fmt", "into"} :
           hash_text' = Some([by |-> by,
                              text |-> IF by = "fmt"
                                       THEN HashFunctionTextualName_fmt(OkVal(Unwrap(hash_parsed).ret))
                                       ELSE HashFunctionTextualName_into_str(OkVal(Unwrap(hash_parsed).ret))])
    /\ UNCHANGED <<planVars, rangeVars, downloadVars, runVars, checkVars, progVars, builderVars, loopVars,
                   hash_input, hash_parsed, hash_reparsed>>

\* The formatted text parsed again.
ReparseName ==
    /\ pc = "names"
    /\ hash_text # None
    /\ hash_reparsed = None
    /\ \E by \in {"from_str", "try_from"} :
           hash_reparsed' = Some([by |-> by, ret |-> ParseBy(by, Unwrap(hash_text).text)])
    /\ UNCHANGED <<planVars, rangeVars, downloadVars, runVars, checkVars, progVars, builderVars, loopVars,
                   hash_input, hash_parsed, hash_text>>

\* No manifest, plan, download or run: only library functions are called.
NoCommand ==
    /\ metalink = <<>>
    /\ fs = <<>>
    /\ plan = Err
    /\ minimized = [panicked |-> FALSE, files |-> <<>>, total_size |-> 0]
    /\ RangesIdle
    /\ max_threads = 2
    /\ NoDownload
    /\ max_parallel_files = 1
    /\ NoRun
    /\ NoValidation

InitNames ==
    /\ NoCommand
    /\ NoRangeLoop
    /\ pc = "names"
    /\ hash_input \in NameStrings
    /\ hash_parsed = None
    /\ hash_text = None
    /\ hash_reparsed = None
    /\ builder = [name |-> None, size |-> None, url |-> None, metaurl |-> None]
    /\ build_ret = None

NextNames == ParseName \/ FormatName \/ ReparseName

\* Parsing, formatting and parsing again of hash-function names.
SpecNames == InitNames /\ [][NextNames]_vars

\* ---------------------------------------------------------------- FileBuilder

\* metalink::MetaUrl::new
MetaUrl_new(url, media_type, priority, name) ==
    [url |-> url, media_type |-> media_type, priority |-> priority, name |-> name]

\* FileBuilder::new: no field is set.
FileBuilder_new == [name |-> None, size |-> None, url |-> None, metaurl |-> None]

\* A build that insists on a non-empty url list whatever the metaurl list holds.
FileBuilder_build_requires_urls(self) ==
    IF self.name = None THEN ErrOf("MetalinkConstructionError")
    ELSE IF self.url = None THEN ErrOf("MetalinkConstructionError")
    ELSE IF Unwrap(self.url) = <<>> THEN ErrOf("MetalinkConstructionError")
    ELSE Ok([name |-> Unwrap(self.name), size |-> self.size,
             url |-> self.url, metaurl |-> self.metaurl])

\* FileBuilder::build
FileBuilder_build(self) ==
    IF self.name = None THEN ErrOf("MetalinkConstructionError")
    ELSE IF self.url = None /\ self.metaurl = None
    THEN ErrOf("MetalinkConstructionError")
    ELSE IF self.url # None /\ self.metaurl = None /\ Unwrap(self.url) = <<>>
    THEN ErrOf("MetalinkConstructionError")
    ELSE IF self.url = None /\ self.metaurl # None /\ Unwrap(self.metaurl) = <<>>
    THEN ErrOf("MetalinkConstructionError")
    ELSE IF self.url # None /\ self.metaurl # None
            /\ Unwrap(self.url) = <<>> /\ Unwrap(self.metaurl) = <<>>
    THEN ErrOf("MetalinkConstructionError")
    ELSE Ok([name |-> Unwrap(self.name), size |-> self.size,
             url |-> self.url, metaurl |-> self.metaurl])

\* The metaurl list of a file element.
ManifestMetaUrls == <<MetaUrl_new("meta1", "torrent", Some(1), None)>>

\* FileBuilder::with_name
WithName ==
    /\ pc = "building"
    /\ \E name \in {"a", "b"} : builder' = [builder EXCEPT !.name = Some(name)]
    /\ UNCHANGED <<planVars, rangeVars, downloadVars, runVars, checkVars, progVars, nameVars, loopVars, build_ret>>

\* FileBuilder::with_size
WithSize ==
    /\ pc = "building"
    /\ \E size \in 1..MaxTotalSize : builder' = [builder EXCEPT !.size = Some(size)]
    /\ UNCHANGED <<planVars, rangeVars, downloadVars, runVars, checkVars, progVars, nameVars, loopVars, build_ret>>

\* FileBuilder::with_urls
WithUrls ==
    /\ pc = "building"
    /\ \E urls \in {<<>>, ManifestUrls} : builder' = [builder EXCEPT !.url = Some(urls)]
    /\ UNCHANGED <<planVars, rangeVars, downloadVars, runVars, checkVars, progVars, nameVars, loopVars, build_ret>>

\* FileBuilder::with_metaurls
WithMetaurls ==
    /\ pc = "building"
    /\ \E metaurls \in {<<>>, ManifestMetaUrls} :
           builder' = [builder EXCEPT !.metaurl = Some(metaurls)]
    /\ UNCHANGED <<planVars, rangeVars, downloadVars, runVars, checkVars, progVars, nameVars, loopVars, build_ret>>

\* FileBuilder::build, which consumes the builder.
Build ==
    /\ pc = "building"
    /\ build_ret' = Some(FileBuilder_build(builder))
    /\ pc' = "built"
    /\ UNCHANGED <<metalink, fs, plan, minimized, rangeVars, downloadVars, runVars, checkVars, progVars,
                   nameVars, loopVars, builder>>

InitBuilder ==
    /\ NoCommand
    /\ NoRangeLoop
    /\ pc = "building"
    /\ hash_input = ""
    /\ hash_parsed = None
    /\ hash_text = None
    /\ hash_reparsed = None
    /\ builder = FileBuilder_new
    /\ build_ret = None

NextBuilder == WithName \/ WithSize \/ WithUrls \/ WithMetaurls \/ Build

\* A file element built with FileBuilder: any setters in any order, then build.
SpecBuilder == InitBuilder /\ [][NextBuilder]_vars

\* ---------------------------------------------------------------- the file writer

\* The number of fetch+verify rounds of download_chunk (for _ in 0..3).
MaxAttempts == 3

WriteFileChunk(offset, downloaded_bytes) ==
    [kind |-> "WriteFileChunk", offset |-> offset, downloaded_bytes |-> downloaded_bytes]
FinishWriting == [kind |-> "FinishWriting", offset |-> 0, downloaded_bytes |-> <<>>]

Max(a, b) == IF a > b THEN a ELSE b

\* A write at an offset that also cuts the file off behind the written bytes.
WriteAt_truncating(file, offset, data) ==
    [k \in 1..(offset + Len(data)) |->
        IF k > offset THEN data[k - offset]
        ELSE IF k <= Len(file) THEN file[k] ELSE ZeroByte]

\* file.seek(Start(offset)) and file.write(data): the bytes of the file after
\* the write (the whole buffer is taken to be written by the one call); a
\* write past the end extends the file, zero-filling any gap.
WriteAt(file, offset, data) ==
    [k \in 1..Max(Len(file), offset + Len(data)) |->
        IF k > offset /\ k <= offset + Len(data) THEN data[k - offset]
        ELSE IF k <= Len(file) THEN file[k] ELSE ZeroByte]

\* The content of a file after File::create and set_len(size).
ZeroFile(size) == [k \in 1..size |-> ZeroByte]

\* ProgressUpdate
Progressed(bytes) == [kind |-> "Progressed", bytes |-> bytes]
Finished == [kind |-> "Finished", bytes |-> 0]

\* Whether the receiver of the progress channel still exists, so that a send
\* succeeds: it is created with the channel and dropped when the reporter
\* task ends.
ReporterReceives == reporter # "done"

\* Whether the writer's receiver still exists, so that a send succeeds.
WriterReceives == writer \in {"spawned", "running"}

\* Whether a sender of the writer's channel still exists: download's own tx,
\* or a clone inside a job that is queued or being processed.
SendersAlive ==
    \/ dpc \notin {"idle", "done"}
    \/ \E w \in DOMAIN workers : workers[w].st = "fetch"
    \/ (job_queue # <<>> /\ \E w \in DOMAIN workers : workers[w].st \in {"idle", "fetch"})

\* file_writer_task up to its loop: create_dir_all, File::create (which
\* truncates an existing file) and set_len; any of them may fail.
WriterStart ==
    /\ writer = "spawned"
    /\ \E outcome \in {"ok", "create_fails", "set_len_fails"} :
        LET target_file == Unwrap(call).target_file
        IN  /\ fs' = CASE outcome = "ok" ->
                              [fs EXCEPT ![target_file] = Some(ZeroFile(Unwrap(call).size))]
                       [] outcome = "set_len_fails" ->
                              [fs EXCEPT ![target_file] = Some(<<>>)]
                       [] outcome = "create_fails" -> fs
            /\ writer' = IF outcome = "ok" THEN "running" ELSE "err"
            /\ inbox' = IF outcome = "ok" THEN inbox ELSE <<>>
    /\ UNCHANGED <<planInputVars, pc, rangeVars, runVars, checkVars, progVars, libVars, max_threads, dispatchVars, workerVars,
                   bytes_written, progressed>>

\* One round of the writer's loop on a received command: FinishWriting ends
\* the task; WriteFileChunk seeks, writes, flushes and reports progress, or
\* fails and ends the task with an error (its receiver is dropped).
WriterStep ==
    /\ writer = "running"
    /\ inbox # <<>>
    /\ LET cmd == Head(inbox)
           target_file == Unwrap(call).target_file
       IN  IF cmd.kind = "FinishWriting"
           THEN /\ writer' = "ok"
                /\ inbox' = <<>>
                /\ UNCHANGED <<fs, bytes_written, progressed, prog_inbox>>
           ELSE \E outcome \in {"ok", "io_error"} :
                IF outcome = "ok"
                THEN /\ fs' = [fs EXCEPT ![target_file] =
                                  Some(WriteAt(Unwrap(fs[target_file]), cmd.offset, cmd.downloaded_bytes))]
                     /\ bytes_written' = bytes_written + Len(cmd.downloaded_bytes)
                     /\ IF ~Unwrap(call).prog_tx
                        THEN /\ inbox' = Tail(inbox)
                             /\ UNCHANGED <<writer, progressed, prog_inbox>>
                        ELSE IF ReporterReceives
                        THEN /\ prog_inbox' = Append(prog_inbox, Progressed(Len(cmd.downloaded_bytes)))
                             /\ progressed' = progressed + Len(cmd.downloaded_bytes)
                             /\ inbox' = Tail(inbox)
                             /\ UNCHANGED writer
                        ELSE /\ writer' = "err"
                             /\ inbox' = <<>>
                             /\ UNCHANGED <<progressed, prog_inbox>>
                ELSE /\ writer' = "err"
                     /\ inbox' = <<>>
                     /\ UNCHANGED <<fs, bytes_written, progressed, prog_inbox>>
    /\ UNCHANGED <<planInputVars, pc, rangeVars, runVars, checkVars, libVars, max_threads, dispatchVars, workerVars,
                   bytes_downloaded, reporter>>

\* rx.recv() returns None once the channel is empty and every sender is
\* dropped: the loop ends and the task returns Ok.
WriterChannelClosed ==
    /\ writer = "running"
    /\ inbox = <<>>
    /\ ~SendersAlive
    /\ writer' = "ok"
    /\ UNCHANGED <<planVars, rangeVars, runVars, checkVars, progVars, libVars, max_threads, dispatchVars, workerVars,
                   inbox, bytes_written, progressed>>

\* ---------------------------------------------------------------- download_chunk

FetchOutcomes == {"valid", "corrupt", "error"}

\* The body of a range response: the origin's bytes, or corrupted ones.
ResponseBytes(chunk, outcome) ==
    IF outcome = "valid" THEN ContentBytes(chunk.start, chunk.end)
    ELSE CorruptBytes(chunk_size(chunk))

\* A download_chunk without its has_checksum() branch: the bytes of every
\* chunk go through the verification rounds, which a chunk without a checksum
\* never passes.
ChunkVerdict_always_verified(chunk, outcome, attempt) ==
    LET verdict ==
            IF outcome = "error" THEN "request"
            ELSE IF validate_checksum(chunk, ResponseBytes(chunk, outcome)) = Some(TRUE)
            THEN "forward"
            ELSE IF attempt = MaxAttempts THEN "checksum" ELSE "retry"
    IN  IF verdict = "forward" /\ ~WriterReceives THEN "send" ELSE verdict

\* What one completed range request of download_chunk leads to, in its
\* `attempt`-th round: "request" (the request failed), "forward" (the bytes go
\* to the writer), "retry" (mismatch, rounds left), "checksum" (mismatch in the
\* last round), "send" (the writer's channel is closed).
ChunkVerdict(chunk, outcome, attempt) ==
    LET verdict ==
            IF outcome = "error" THEN "request"
            ELSE IF has_checksum(chunk)
            THEN (IF validate_checksum(chunk, ResponseBytes(chunk, outcome)) = Some(TRUE)
                  THEN "forward"
                  ELSE IF attempt = MaxAttempts THEN "checksum" ELSE "retry")
            ELSE "forward"
    IN  IF verdict = "forward" /\ ~WriterReceives THEN "send" ELSE verdict

IdleWorker == [st |-> "idle", job |-> 0, attempt |-> 0]
ExitedWorker(st) == [st |-> st, job |-> 0, attempt |-> 0]

\* ---------------------------------------------------------------- download

\* download(...) up to its dispatch loop, called by download_file_task for the
\* file of the minimized plan the loop is at: the job channel of capacity
\* available_parallelism (async_channel::bounded panics on 0), the workers and
\* the file writer are created, all of them new for this call.
DownloadStart ==
    /\ pc = "loop"
    /\ cur_file <= Len(minimized.files)
    /\ minimized.files[cur_file].chunks # None
    /\ LET file == minimized.files[cur_file]
           ranges == Unwrap(file.chunks)
           available_parallelism == Min(max_threads - 1, Len(ranges))
       IN  /\ call' = Some([url |-> file.url, target_file |-> file.target_file,
                            size |-> Unwrap(file.file_size), ranges |-> ranges,
                            prog_tx |-> TRUE,
                            available_parallelism |-> available_parallelism])
           /\ job_done' = [j \in 1..Len(ranges) |-> "unsent"]
           /\ fetches' = [j \in 1..Len(ranges) |-> 0]
           /\ forwarded' = [j \in 1..Len(ranges) |-> <<>>]
           /\ job_error' = [j \in 1..Len(ranges) |-> "none"]
           /\ IF available_parallelism = 0
              THEN /\ dpc' = "done"
                   /\ result' = "panic"
                   /\ workers' = <<>>
                   /\ writer' = "none"
              ELSE /\ dpc' = "send"
                   /\ workers' = [w \in 1..available_parallelism |-> IdleWorker]
                   /\ writer' = "spawned"
                   /\ result' = "none"
    /\ next_job' = 1
    /\ cancelled' = FALSE
    /\ job_queue' = <<>>
    /\ inbox' = <<>>
    /\ bytes_written' = 0
    /\ pc' = "downloading"
    /\ started' = Append(started, cur_file)
    /\ in_progress' = in_progress \cup {cur_file}
    /\ UNCHANGED <<planInputVars, fs, rangeVars, checkVars, progVars, libVars, max_threads, progressed,
                   max_parallel_files, cur_file, client, run_result>>

\* A dispatch loop whose job channel has no capacity bound.
DispatchJob_unbounded ==
    /\ dpc = "send"
    /\ job_queue' = Append(job_queue, next_job)
    /\ job_done' = [job_done EXCEPT ![next_job] = "pending"]
    /\ next_job' = next_job + 1
    /\ dpc' = IF next_job = Len(Unwrap(call).ranges) THEN "join" ELSE "send"
    /\ UNCHANGED <<planVars, rangeVars, runVars, checkVars, progVars, libVars, max_threads, call, cancelled, result,
                   workers, fetches, forwarded, job_error, writerVars>>

\* One round of the dispatch loop: job_tx.send(job).await, which waits while
\* the queue is full (download keeps a receiver, so the channel never closes
\* under it).
DispatchJob ==
    /\ dpc = "send"
    /\ Len(job_queue) < Unwrap(call).available_parallelism
    /\ job_queue' = Append(job_queue, next_job)
    /\ job_done' = [job_done EXCEPT ![next_job] = "pending"]
    /\ next_job' = next_job + 1
    /\ dpc' = IF next_job = Len(Unwrap(call).ranges) THEN "join" ELSE "send"
    /\ UNCHANGED <<planVars, rangeVars, runVars, checkVars, progVars, libVars, max_threads, call, cancelled, result,
                   workers, fetches, forwarded, job_error, writerVars>>

\* A worker that receives the job at the head of the queue and leaves it
\* there for the other workers to receive as well (a broadcast channel).
WorkerTakeJob_broadcast(w) ==
    /\ workers[w].st = "idle"
    /\ job_queue # <<>>
    /\ workers' = [workers EXCEPT ![w] = [st |-> "fetch", job |-> Head(job_queue), attempt |-> 0]]
    /\ job_queue' = IF \E v \in DOMAIN workers : v # w /\ workers[v].st = "idle"
                    THEN job_queue ELSE Tail(job_queue)
    /\ UNCHANGED <<planVars, rangeVars, runVars, checkVars, progVars, libVars, max_threads, dispatchVars,
                   job_done, fetches, forwarded, job_error, writerVars>>

\* download_worker: job_queue.recv() wins the select.
WorkerTakeJob(w) ==
    /\ workers[w].st = "idle"
    /\ job_queue # <<>>
    /\ workers' = [workers EXCEPT ![w] = [st |-> "fetch", job |-> Head(job_queue), attempt |-> 0]]
    /\ job_queue' = Tail(job_queue)
    /\ UNCHANGED <<planVars, rangeVars, runVars, checkVars, progVars, libVars, max_threads, dispatchVars,
                   job_done, fetches, forwarded, job_error, writerVars>>

\* A worker that, besides forwarding the verified bytes, writes them to the
\* target file itself through a handle of its own.
WorkerFetch_writes_file(w) ==
    /\ workers[w].st = "fetch"
    /\ \E outcome \in FetchOutcomes :
        LET j == workers[w].job
            chunk == Unwrap(call).ranges[j]
            attempt == workers[w].attempt + 1
            verdict == ChunkVerdict(chunk, outcome, attempt)
            cmd == WriteFileChunk(chunk.start, ResponseBytes(chunk, outcome))
            acked == verdict = "forward" /\ dpc # "done"
            target_file == Unwrap(call).target_file
        IN  /\ fetches' = [fetches EXCEPT ![j] = @ + 1]
            /\ inbox' = IF verdict = "forward" THEN Append(inbox, cmd) ELSE inbox
            /\ forwarded' = IF verdict = "forward"
                            THEN [forwarded EXCEPT ![j] = Append(@, cmd)]
                            ELSE forwarded
            /\ fs' = IF verdict = "forward"
                     THEN [fs EXCEPT ![target_file] =
                              Some(WriteAt(IF fs[target_file] = None THEN <<>> ELSE Unwrap(fs[target_file]),
                                           cmd.offset, cmd.downloaded_bytes))]
                     ELSE fs
            /\ job_done' = IF acked THEN [job_done EXCEPT ![j] = "sent"]
                           ELSE IF verdict = "retry" THEN job_done
                           ELSE [job_done EXCEPT ![j] = "dropped"]
            /\ job_error' = IF verdict \in {"request", "checksum", "send"}
                            THEN [job_error EXCEPT ![j] = verdict]
                            ELSE IF verdict = "forward" /\ ~acked
                            THEN [job_error EXCEPT ![j] = "ack"]
                            ELSE job_error
            /\ workers' = [workers EXCEPT ![w] =
                              IF verdict = "retry" THEN [@ EXCEPT !.attempt = attempt]
                              ELSE IF acked THEN IdleWorker
                              ELSE ExitedWorker("err")]
    /\ UNCHANGED <<planInputVars, pc, rangeVars, runVars, checkVars, progVars, libVars, max_threads, dispatchVars,
                   job_queue, writer, bytes_written, progressed>>

\* download_worker inside download_chunk: a range request completes, the
\* bytes are verified and forwarded or the round is repeated; on success the
\* job is acknowledged, on failure the worker task returns the error.
WorkerFetch(w) ==
    /\ workers[w].st = "fetch"
    /\ \E outcome \in FetchOutcomes :
        LET j == workers[w].job
            chunk == Unwrap(call).ranges[j]
            attempt == workers[w].attempt + 1
            verdict == ChunkVerdict(chunk, outcome, attempt)
            cmd == WriteFileChunk(chunk.start, ResponseBytes(chunk, outcome))
            acked == verdict = "forward" /\ dpc # "done"
        IN  /\ fetches' = [fetches EXCEPT ![j] = @ + 1]
            /\ inbox' = IF verdict = "forward" THEN Append(inbox, cmd) ELSE inbox
            /\ forwarded' = IF verdict = "forward"
                            THEN [forwarded EXCEPT ![j] = Append(@, cmd)]
                            ELSE forwarded
            /\ job_done' = IF acked THEN [job_done EXCEPT ![j] = "sent"]
                           ELSE IF verdict = "retry" THEN job_done
                           ELSE [job_done EXCEPT ![j] = "dropped"]
            /\ job_error' = IF verdict \in {"request", "checksum", "send"}
                            THEN [job_error EXCEPT ![j] = verdict]
                            ELSE IF verdict = "forward" /\ ~acked
                            THEN [job_error EXCEPT ![j] = "ack"]
                            ELSE job_error
            /\ workers' = [workers EXCEPT ![w] =
                              IF verdict = "retry" THEN [@ EXCEPT !.attempt = attempt]
                              ELSE IF acked THEN IdleWorker
                              ELSE ExitedWorker("err")]
    /\ UNCHANGED <<planVars, rangeVars, runVars, checkVars, progVars, libVars, max_threads, dispatchVars, job_queue,
                   writer, bytes_written, progressed>>

\* A worker that also gives up on cancellation while it processes a job: the
\* request in flight is dropped and the task returns Ok.
WorkerCancelled_in_flight(w) ==
    /\ workers[w].st \in {"idle", "fetch"}
    /\ cancelled
    /\ workers' = [workers EXCEPT ![w] = ExitedWorker("ok")]
    /\ UNCHANGED <<planVars, rangeVars, runVars, checkVars, progVars, libVars, max_threads, dispatchVars, job_queue,
                   job_done, fetches, forwarded, job_error, writerVars>>

\* download_worker: cancellation_token.cancelled() wins the select.
WorkerCancelled(w) ==
    /\ workers[w].st = "idle"
    /\ cancelled
    /\ workers' = [workers EXCEPT ![w] = ExitedWorker("ok")]
    /\ UNCHANGED <<planVars, rangeVars, runVars, checkVars, progVars, libVars, max_threads, dispatchVars, job_queue,
                   job_done, fetches, forwarded, job_error, writerVars>>

\* A worker that takes the closing of the job channel for an empty queue and
\* ends only on cancellation.
WorkerRecvClosed_ignored(w) ==
    /\ workers[w].st = "idle"
    /\ job_queue = <<>>
    /\ dpc = "done"
    /\ cancelled
    /\ workers' = [workers EXCEPT ![w] = ExitedWorker("err")]
    /\ UNCHANGED <<planVars, rangeVars, runVars, checkVars, progVars, libVars, max_threads, dispatchVars, job_queue,
                   job_done, fetches, forwarded, job_error, writerVars>>

\* download_worker: job_queue.recv() fails, the channel being empty and closed
\* (download has returned and dropped its sender).
WorkerRecvClosed(w) ==
    /\ workers[w].st = "idle"
    /\ job_queue = <<>>
    /\ dpc = "done"
    /\ workers' = [workers EXCEPT ![w] = ExitedWorker("err")]
    /\ UNCHANGED <<planVars, rangeVars, runVars, checkVars, progVars, libVars, max_threads, dispatchVars, job_queue,
                   job_done, fetches, forwarded, job_error, writerVars>>

\* A download that sends FinishWriting and closes the tracker without
\* cancelling the token.
JoinJobs_without_cancel ==
    /\ dpc = "join"
    /\ \A j \in DOMAIN job_done : job_done[j] \in {"sent", "dropped"}
    /\ IF \E j \in DOMAIN job_done : job_done[j] = "dropped"
       THEN /\ result' = "err"
            /\ dpc' = "done"
            /\ UNCHANGED <<inbox, cancelled>>
       ELSE IF WriterReceives
       THEN /\ inbox' = Append(inbox, FinishWriting)
            /\ dpc' = "wait"
            /\ UNCHANGED <<result, cancelled>>
       ELSE /\ result' = "err"
            /\ dpc' = "done"
            /\ UNCHANGED <<inbox, cancelled>>
    /\ UNCHANGED <<planVars, rangeVars, runVars, checkVars, progVars, libVars, max_threads, call, next_job, workerVars,
                   writer, bytes_written, progressed>>

\* download after the dispatch loop: join_all(jobs_done) has resolved; the
\* first dropped completion returns "Job failed"; otherwise FinishWriting is
\* sent (an error if the writer is gone), the tracker is closed and the token
\* cancelled.
JoinJobs ==
    /\ dpc = "join"
    /\ \A j \in DOMAIN job_done : job_done[j] \in {"sent", "dropped"}
    /\ IF \E j \in DOMAIN job_done : job_done[j] = "dropped"
       THEN /\ result' = "err"
            /\ dpc' = "done"
            /\ UNCHANGED <<inbox, cancelled>>
       ELSE IF WriterReceives
       THEN /\ inbox' = Append(inbox, FinishWriting)
            /\ cancelled' = TRUE
            /\ dpc' = "wait"
            /\ UNCHANGED result
       ELSE /\ result' = "err"
            /\ dpc' = "done"
            /\ UNCHANGED <<inbox, cancelled>>
    /\ UNCHANGED <<planVars, rangeVars, runVars, checkVars, progVars, libVars, max_threads, call, next_job, workerVars,
                   writer, bytes_written, progressed>>

\* A download that returns Ok once its workers have ended, without waiting
\* for its file writer.
WaitTasks_without_writer ==
    /\ dpc = "wait"
    /\ \A w \in DOMAIN workers : workers[w].st \in {"ok", "err"}
    /\ result' = "ok"
    /\ dpc' = "done"
    /\ UNCHANGED <<planVars, rangeVars, runVars, checkVars, progVars, libVars, max_threads, call, next_job, cancelled,
                   workerVars, writerVars>>

\* tracker.wait() returns once every worker and the writer have ended,
\* whatever they returned; download returns Ok.
WaitTasks ==
    /\ dpc = "wait"
    /\ writer \in {"ok", "err"}
    /\ \A w \in DOMAIN workers : workers[w].st \in {"ok", "err"}
    /\ result' = "ok"
    /\ dpc' = "done"
    /\ UNCHANGED <<planVars, rangeVars, runVars, checkVars, progVars, libVars, max_threads, call, next_job, cancelled,
                   workerVars, writerVars>>

\* ---------------------------------------------------------------- download_metalink

\* A client that is built first, before the plan is made.
MakeClient_before_plan ==
    /\ pc = "start"
    /\ ~client
    /\ client' = TRUE
    /\ UNCHANGED <<planVars, rangeVars, checkVars, progVars, libVars, downloadVars,
                   max_parallel_files, cur_file, started, in_progress, run_result>>

\* make_http_client(user_agent), which may fail, and the spawn of the progress
\* reporter: the loop over the files of the minimized plan begins.
MakeClient ==
    /\ pc = "minimized"
    /\ \E built \in BOOLEAN :
        /\ client' = built
        /\ pc' = IF built THEN "loop" ELSE "done"
        /\ run_result' = IF built THEN run_result ELSE "err"
        /\ reporter' = IF built THEN "running" ELSE reporter
    /\ UNCHANGED <<planInputVars, fs, rangeVars, checkVars, libVars, downloadVars,
                   max_parallel_files, cur_file, started, in_progress,
                   prog_inbox, bytes_downloaded>>

\* download_file_task for a file without chunks: simple_download. The GET
\* request may fail; then File::create truncates the target (or fails); then
\* the body, which nothing verifies, is read (or fails) and written (or the
\* write fails after some prefix).
SimpleDownload ==
    /\ pc = "loop"
    /\ cur_file <= Len(minimized.files)
    /\ minimized.files[cur_file].chunks = None
    /\ LET file == minimized.files[cur_file]
           size == Unwrap(file.file_size)
       IN  \E outcome \in {"valid", "corrupt", "request_error", "create_fails",
                           "body_error", "write_fails"} :
           \E written \in 0..(size - 1) :
               /\ outcome # "write_fails" => written = 0
               /\ fs' = CASE outcome = "valid" ->
                                 [fs EXCEPT ![file.target_file] = Some(ContentBytes(0, size - 1))]
                           [] outcome = "corrupt" ->
                                 [fs EXCEPT ![file.target_file] = Some(CorruptBytes(size))]
                           [] outcome = "body_error" ->
                                 [fs EXCEPT ![file.target_file] = Some(<<>>)]
                           [] outcome = "write_fails" ->
                                 [fs EXCEPT ![file.target_file] = Some(ContentBytes(0, written - 1))]
                           [] OTHER -> fs
               /\ result' = IF outcome \in {"valid", "corrupt"} THEN "ok" ELSE "err"
    /\ call' = None
    /\ dpc' = "idle"
    /\ next_job' = 1
    /\ cancelled' = FALSE
    /\ job_queue' = <<>>
    /\ workers' = <<>>
    /\ job_done' = <<>>
    /\ fetches' = <<>>
    /\ forwarded' = <<>>
    /\ job_error' = <<>>
    /\ inbox' = <<>>
    /\ writer' = "none"
    /\ bytes_written' = 0
    /\ pc' = "downloading"
    /\ started' = Append(started, cur_file)
    /\ in_progress' = in_progress \cup {cur_file}
    /\ UNCHANGED <<planInputVars, rangeVars, checkVars, progVars, libVars, max_threads, progressed,
                   max_parallel_files, cur_file, client, run_result>>

\* A loop that spawns download_file_task and moves on without awaiting it.
FileReturned_not_awaited ==
    /\ pc = "downloading"
    /\ cur_file' = cur_file + 1
    /\ pc' = "loop"
    /\ UNCHANGED <<planInputVars, fs, rangeVars, checkVars, progVars, libVars, downloadVars,
                   max_parallel_files, client, started, in_progress, run_result>>

\* download_file_task(...).await returns inside the loop of download_metalink:
\* Ok moves the loop to the next file, an error is returned by the run (`?`),
\* a panic unwinds through it.
FileReturned ==
    /\ pc = "downloading"
    /\ result # "none"
    /\ in_progress' = in_progress \ {cur_file}
    /\ IF result = "ok"
       THEN /\ cur_file' = cur_file + 1
            /\ pc' = "loop"
            /\ UNCHANGED run_result
       ELSE /\ run_result' = result
            /\ pc' = "done"
            /\ UNCHANGED cur_file
    /\ UNCHANGED <<planInputVars, fs, rangeVars, checkVars, progVars, libVars, downloadVars,
                   max_parallel_files, client, started>>

\* download_metalink after its loop: Finished is sent to the progress
\* reporter; the send fails, and the run with it, if the reporter has ended.
FinishRun ==
    /\ pc = "loop"
    /\ cur_file > Len(minimized.files)
    /\ IF ReporterReceives
       THEN /\ prog_inbox' = Append(prog_inbox, Finished)
            /\ pc' = "await"
            /\ UNCHANGED run_result
       ELSE /\ run_result' = "err"
            /\ pc' = "done"
            /\ UNCHANGED prog_inbox
    /\ UNCHANGED <<planInputVars, fs, rangeVars, checkVars, libVars, downloadVars,
                   max_parallel_files, cur_file, client, started, in_progress,
                   bytes_downloaded, reporter>>

\* progress_reporter.await: the reporter task has ended (it returns Ok) and
\* the run returns Ok.
AwaitReporter ==
    /\ pc = "await"
    /\ reporter = "done"
    /\ run_result' = "ok"
    /\ pc' = "done"
    /\ UNCHANGED <<planInputVars, fs, rangeVars, checkVars, progVars, libVars, downloadVars,
                   max_parallel_files, cur_file, client, started, in_progress>>

\* One round of progress_reporter_task's loop on a received update:
\* Progressed(n) adds n to the running total, Finished ends the task.
ReporterStep ==
    /\ reporter = "running"
    /\ prog_inbox # <<>>
    /\ IF Head(prog_inbox).kind = "Finished"
       THEN /\ reporter' = "done"
            /\ prog_inbox' = <<>>
            /\ UNCHANGED bytes_downloaded
       ELSE /\ bytes_downloaded' = bytes_downloaded + Head(prog_inbox).bytes
            /\ prog_inbox' = Tail(prog_inbox)
            /\ UNCHANGED reporter
    /\ UNCHANGED <<planVars, rangeVars, checkVars, libVars, downloadVars, runVars>>

\* prog_rx.recv() returns None once the channel is empty and every sender is
\* dropped (download_metalink has returned and no file writer is left): the
\* reporter's loop ends.
ReporterChannelClosed ==
    /\ reporter = "running"
    /\ prog_inbox = <<>>
    /\ pc = "done"
    /\ ~WriterReceives
    /\ reporter' = "done"
    /\ UNCHANGED <<planVars, rangeVars, checkVars, libVars, downloadVars, runVars,
                   prog_inbox, bytes_downloaded>>

\* The file sizes of a download run: one chunk, two chunks, and the largest
\* size (the sizes between them give the same numbers of chunks).
DownloadSizes == {1, 3, MaxDownloadSize}

\* A download-metalink run on a manifest of one file with pieces.
Init ==
    /\ PlanInputs(DownloadSizes, {2}, {1}, {"pieces"})
    /\ RangesIdle
    /\ max_threads \in 1..MaxThreads
    /\ NoDownload
    /\ max_parallel_files = 1
    /\ NoRun
    /\ NoValidation
    /\ NoLibraryCall
    /\ NoRangeLoop

Next ==
    \/ PlanNew
    \/ MinimizePlan
    \/ DownloadStart
    \/ DispatchJob
    \/ \E w \in DOMAIN workers : WorkerTakeJob(w)
    \/ \E w \in DOMAIN workers : WorkerFetch(w)
    \/ \E w \in DOMAIN workers : WorkerCancelled(w)
    \/ \E w \in DOMAIN workers : WorkerRecvClosed(w)
    \/ WriterStart
    \/ WriterStep
    \/ WriterChannelClosed
    \/ JoinJobs
    \/ WaitTasks
    \/ MakeClient
    \/ FileReturned
    \/ FinishRun
    \/ AwaitReporter
    \/ ReporterStep
    \/ ReporterChannelClosed

Spec == Init /\ [][Next]_vars

\* cancellation_token.cancel() by a holder of the token other than the end of
\* download: download_worker is handed the token and may find it cancelled at
\* any moment, also while jobs are queued or in flight.
CancelToken ==
    /\ call # None
    /\ dpc \in {"send", "join"}
    /\ ~cancelled
    /\ cancelled' = TRUE
    /\ UNCHANGED <<planVars, rangeVars, runVars, checkVars, progVars, libVars, max_threads, call, dpc, next_job,
                   result, workerVars, writerVars>>

\* The worker pool of a download of three chunks whose token may be cancelled
\* early.
InitWorker ==
    /\ PlanInputs({3}, {1}, {1}, {"pieces"})
    /\ fs[Path_join(TargetDir, 1)] = None
    /\ RangesIdle
    /\ max_threads \in {2, 3}
    /\ NoDownload
    /\ max_parallel_files = 1
    /\ NoRun
    /\ NoValidation
    /\ NoLibraryCall
    /\ NoRangeLoop

NextWorker == Next \/ CancelToken

SpecWorker == InitWorker /\ [][NextWorker]_vars

\* The (kind, disk state) pairs a file of a whole run is drawn from: a file
\* with pieces of one byte each, absent or on disk with a stale first piece;
\* and absent files without any checksum, with and without a size, and
\* without a url list.
RunFileInputs(size) ==
    {<<"pieces", None>>, <<"pieces", Some(DiskWith({1}, size, 1))>>,
     <<"bare", None>>, <<"nosize", None>>, <<"nourls", None>>}

\* A download-metalink run on a manifest of several files of two bytes each.
InitRun ==
    /\ \E size \in {2}, n \in 1..MaxRunFiles :
        \E inputs \in [1..n -> RunFileInputs(size)] :
            /\ metalink = [i \in 1..n |-> Descriptor(i, inputs[i][1], size, 1)]
            /\ fs = [p \in {Path_join(TargetDir, i) : i \in 1..n} |-> inputs[p[2]][2]]
    /\ plan = Err
    /\ minimized = [panicked |-> FALSE, files |-> <<>>, total_size |-> 0]
    /\ pc = "start"
    /\ RangesIdle
    /\ max_threads = 2
    /\ NoDownload
    /\ max_parallel_files \in {1, MaxParallelFiles}
    /\ NoRun
    /\ NoValidation
    /\ NoLibraryCall
    /\ NoRangeLoop

NextRun ==
    \/ PlanNew
    \/ MinimizePlan
    \/ MakeClient
    \/ DownloadStart
    \/ SimpleDownload
    \/ DispatchJob
    \/ \E w \in DOMAIN workers : WorkerTakeJob(w)
    \/ \E w \in DOMAIN workers : WorkerFetch(w)
    \/ \E w \in DOMAIN workers : WorkerCancelled(w)
    \/ \E w \in DOMAIN workers : WorkerRecvClosed(w)
    \/ WriterStart
    \/ WriterStep
    \/ WriterChannelClosed
    \/ JoinJobs
    \/ WaitTasks
    \/ FileReturned
    \/ FinishRun
    \/ AwaitReporter
    \/ ReporterStep
    \/ ReporterChannelClosed

SpecRun == InitRun /\ [][NextRun]_vars

\* ---------------------------------------------------------------- segregrated_download

\* segregrated_download(...) up to the join of its first batch, called by
\* download_file with the ranges of the file and no progress sender: the
\* writer is spawned, then ranges.chunks(max_threads - 1) (which panics on a
\* chunk size of 0) yields the first batch and one task per chunk is spawned.
SegStart ==
    /\ pc = "download_file"
    /\ dpc = "idle"
    /\ range_ret # None
    /\ LET ranges == Unwrap(range_ret)
           available_parallelism == max_threads - 1
           batch == Min(available_parallelism, Len(ranges))
       IN  /\ call' = Some([url |-> "url1", target_file |-> Path_join(TargetDir, 1),
                            size |-> range_args[1], ranges |-> ranges,
                            prog_tx |-> FALSE,
                            available_parallelism |-> available_parallelism])
           /\ job_done' = [j \in 1..Len(ranges) |-> "unsent"]
           /\ fetches' = [j \in 1..Len(ranges) |-> 0]
           /\ forwarded' = [j \in 1..Len(ranges) |-> <<>>]
           /\ job_error' = [j \in 1..Len(ranges) |-> "none"]
           /\ writer' = "spawned"
           /\ IF available_parallelism = 0
              THEN /\ dpc' = "done"
                   /\ result' = "panic"
                   /\ UNCHANGED <<workers, next_job>>
              ELSE /\ dpc' = "join_batch"
                   /\ workers' = [t \in 1..batch |-> [st |-> "fetch", job |-> t, attempt |-> 0]]
                   /\ next_job' = batch + 1
                   /\ UNCHANGED result
    /\ UNCHANGED <<planVars, rangeVars, runVars, checkVars, progVars, libVars, max_threads, cancelled, job_queue,
                   inbox, bytes_written, progressed>>

\* A spawned task inside download_chunk: a range request completes, the bytes
\* are verified (if the chunk has a checksum) and forwarded or the round is
\* repeated; the task ends with Ok or with the error.
SegTaskFetch(t) ==
    /\ dpc = "join_batch"
    /\ workers[t].st = "fetch"
    /\ \E outcome \in FetchOutcomes :
        LET j == workers[t].job
            chunk == Unwrap(call).ranges[j]
            attempt == workers[t].attempt + 1
            verdict == ChunkVerdict(chunk, outcome, attempt)
            cmd == WriteFileChunk(chunk.start, ResponseBytes(chunk, outcome))
        IN  /\ fetches' = [fetches EXCEPT ![j] = @ + 1]
            /\ inbox' = IF verdict = "forward" THEN Append(inbox, cmd) ELSE inbox
            /\ forwarded' = IF verdict = "forward"
                            THEN [forwarded EXCEPT ![j] = Append(@, cmd)]
                            ELSE forwarded
            /\ job_error' = IF verdict \in {"request", "checksum", "send"}
                            THEN [job_error EXCEPT ![j] = verdict]
                            ELSE job_error
            /\ workers' = [workers EXCEPT ![t] =
                              IF verdict = "retry" THEN [@ EXCEPT !.attempt = attempt]
                              ELSE IF verdict = "forward" THEN [@ EXCEPT !.st = "ok"]
                              ELSE [@ EXCEPT !.st = "err"]]
    /\ UNCHANGED <<planVars, rangeVars, runVars, checkVars, progVars, libVars, max_threads, dispatchVars, job_queue, job_done,
                   writer, bytes_written, progressed>>

\* join_all(tasks) returns and its results are discarded (let _ =): the next
\* batch is spawned, or, after the last batch, FinishWriting is sent (an error
\* if the writer is gone).
SegJoinBatch ==
    /\ dpc = "join_batch"
    /\ \A t \in DOMAIN workers : workers[t].st \in {"ok", "err"}
    /\ LET ranges == Unwrap(call).ranges
           batch == Min(Unwrap(call).available_parallelism, Len(ranges) - next_job + 1)
       IN  IF next_job <= Len(ranges)
           THEN /\ workers' = [t \in 1..batch |->
                                  [st |-> "fetch", job |-> next_job + t - 1, attempt |-> 0]]
                /\ next_job' = next_job + batch
                /\ UNCHANGED <<dpc, inbox, result>>
           ELSE IF WriterReceives
           THEN /\ inbox' = Append(inbox, FinishWriting)
                /\ dpc' = "await_writer"
                /\ UNCHANGED <<workers, next_job, result>>
           ELSE /\ result' = "err"
                /\ dpc' = "done"
                /\ UNCHANGED <<workers, next_job, inbox>>
    /\ UNCHANGED <<planVars, rangeVars, runVars, checkVars, progVars, libVars, max_threads, call, cancelled, job_queue, job_done,
                   fetches, forwarded, job_error, writer, bytes_written, progressed>>

\* file_writer.await ... ??: the writer's own result is what
\* segregrated_download returns.
SegAwaitWriter ==
    /\ dpc = "await_writer"
    /\ writer \in {"ok", "err"}
    /\ result' = writer
    /\ dpc' = "done"
    /\ UNCHANGED <<planVars, rangeVars, runVars, checkVars, progVars, libVars, max_threads, call, next_job, cancelled,
                   workerVars, writerVars>>

\* A download-file run on a file too large for a simple download: its size
\* (from the HEAD request) is split into ranges of the block size.
InitSeg ==
    /\ metalink = <<>>
    /\ fs \in {[p \in {Path_join(TargetDir, 1)} |-> d] : d \in {None, Some(CorruptBytes(1))}}
    /\ plan = Err
    /\ minimized = [panicked |-> FALSE, files |-> <<>>, total_size |-> 0]
    /\ pc = "download_file"
    /\ range_args \in (3..MaxDownloadSize) \X {2}
    /\ range_ret = None
    /\ max_threads \in 1..MaxThreads
    /\ NoDownload
    /\ max_parallel_files = 1
    /\ NoRun
    /\ NoValidation
    /\ NoLibraryCall
    /\ NoRangeLoop

NextSeg ==
    \/ CalculateRanges
    \/ SegStart
    \/ \E t \in DOMAIN workers : SegTaskFetch(t)
    \/ SegJoinBatch
    \/ SegAwaitWriter
    \/ WriterStart
    \/ WriterStep
    \/ WriterChannelClosed

SpecSeg == InitSeg /\ [][NextSeg]_vars

\* ---------------------------------------------------------------- properties of planning

\* The ranges a direct calculate_ranges call returned, once it has.
ReturnedRanges == Unwrap(range_ret)

\* C7: for total_size > 0 and block_size > 0 the ranges of calculate_ranges
\* start at 0, end at total_size - 1, each is non-empty (start <= end), each
\* next range starts right after the previous one ends, and the sizes
\* end - start + 1 sum to total_size.
C7_RangesPartitionFile ==
    range_ret # None =>
        LET R == ReturnedRanges
            total_size == range_args[1]
        IN  /\ Len(R) >= 1
            /\ R[1].start = 0
            /\ R[Len(R)].end = total_size - 1
            /\ \A i \in 1..Len(R) : R[i].start <= R[i].end
            /\ \A i \in 1..(Len(R) - 1) : R[i + 1].start = R[i].end + 1
            /\ SumSeq([i \in 1..Len(R) |-> R[i].end - R[i].start + 1]) = total_size

\* A call that returned three or more ranges, the last one shorter than the block.
C7_Witness ==
    /\ range_ret # None
    /\ Len(ReturnedRanges) >= 3
    /\ ReturnedRanges[Len(ReturnedRanges)].end - ReturnedRanges[Len(ReturnedRanges)].start + 1
           < range_args[2]

\* Whether the bytes a file holds at a chunk's range hash to the chunk's digest.
MatchesOnDisk(chunk, bytes) ==
    /\ chunk.checksum # None
    /\ chunk.end < Len(bytes)
    /\ Digest(Unwrap(chunk.checksum).hash_type, SubSeq(bytes, chunk.start + 1, chunk.end + 1))
           = Unwrap(chunk.checksum).checksum

\* The files of the plan Plan::new built.
PlannedFiles == OkVal(plan).files

\* The chunks of a planned file that match the bytes on disk / that do not.
ValidChunks(file) ==
    SelectSeq(Unwrap(file.chunks), LAMBDA c : MatchesOnDisk(c, Unwrap(fs[file.target_file])))
StaleChunks(file) ==
    SelectSeq(Unwrap(file.chunks), LAMBDA c : ~MatchesOnDisk(c, Unwrap(fs[file.target_file])))

\* The entries of the minimized plan for a target file.
KeptEntries(target_file) ==
    SelectSeq(minimized.files, LAMBDA f : f.target_file = target_file)

\* A planned file that is on disk with chunks of which some, not all, match.
PartiallyValid(file) ==
    /\ fs[file.target_file] # None
    /\ file.chunks # None
    /\ \A i \in 1..Len(Unwrap(file.chunks)) : Unwrap(file.chunks)[i].checksum # None
    /\ Len(ValidChunks(file)) < Len(Unwrap(file.chunks))

\* C8: a file on disk with N checksummed chunks of which M < N match the bytes
\* on disk is kept by minimize_plan with exactly the N - M chunks that do not
\* match, unchanged and in their original order.
C8_PartialResumeKeepsStaleChunks ==
    pc = "minimized" =>
        \A i \in 1..Len(PlannedFiles) :
            PartiallyValid(PlannedFiles[i]) =>
                LET kept == KeptEntries(PlannedFiles[i].target_file)
                IN  /\ Len(kept) = 1
                    /\ kept[1].chunks = Some(StaleChunks(PlannedFiles[i]))
                    /\ Len(Unwrap(kept[1].chunks))
                           = Len(Unwrap(PlannedFiles[i].chunks)) - Len(ValidChunks(PlannedFiles[i]))

\* A minimized plan of a file with three chunks of which one matches the disk.
C8_Witness ==
    /\ pc = "minimized"
    /\ \E i \in 1..Len(PlannedFiles) :
           /\ PartiallyValid(PlannedFiles[i])
           /\ Len(Unwrap(PlannedFiles[i].chunks)) = 3
           /\ Len(ValidChunks(PlannedFiles[i])) = 1

\* A planned file that is on disk and verifies: every chunk matches, or, for a
\* file without chunks, the whole-file checksum matches.
VerifiesOnDisk(file) ==
    /\ fs[file.target_file] # None
    /\ IF file.chunks # None
       THEN \A i \in 1..Len(Unwrap(file.chunks)) :
                MatchesOnDisk(Unwrap(file.chunks)[i], Unwrap(fs[file.target_file]))
       ELSE /\ file.file_checksums # None
            /\ Digest(Unwrap(file.file_checksums).hash_type, Unwrap(fs[file.target_file]))
                   = Unwrap(file.file_checksums).checksum

\* C9: when every file of the plan is on disk and verifies, minimize_plan
\* returns no files and total_size = 0.
C9_VerifiedPlanMinimizesToNothing ==
    (pc = "minimized" /\ \A i \in 1..Len(PlannedFiles) : VerifiesOnDisk(PlannedFiles[i]))
        => (minimized.files = <<>> /\ minimized.total_size = 0)

\* A minimized plan of two verified files, one with chunks and one without.
C9_Witness ==
    /\ pc = "minimized"
    /\ Len(PlannedFiles) = 2
    /\ \A i \in 1..Len(PlannedFiles) : VerifiesOnDisk(PlannedFiles[i])
    /\ \E i, j \in 1..Len(PlannedFiles) :
           /\ PlannedFiles[i].chunks # None
           /\ Len(Unwrap(PlannedFiles[i].chunks)) >= 2
           /\ PlannedFiles[j].chunks = None

\* ---------------------------------------------------------------- properties of download

\* The chunks the running download call was given.
Ranges == Unwrap(call).ranges

\* The bytes the target file of the running call holds on disk.
TargetBytes == Unwrap(fs[Unwrap(call).target_file])

\* The run resumes a partially valid file: the plan was minimized, the download
\* was given fewer chunks than the file has.
Resumed ==
    /\ call # None
    /\ Len(Ranges) < Len(Unwrap(PlannedFiles[1].chunks))

\* C1: when a partially valid file is resumed and download returns Ok (its
\* writer having ended without an error), every chunk of the file, kept or
\* re-fetched, matches its manifest digest on disk.
C1_ResumedFileValidates ==
    (Resumed /\ result = "ok" /\ writer = "ok") =>
        \A i \in 1..Len(Unwrap(PlannedFiles[1].chunks)) :
            MatchesOnDisk(Unwrap(PlannedFiles[1].chunks)[i], TargetBytes)

\* Some chunk's job has failed for good: a failed request, or a checksum
\* mismatch in each of the three rounds.
SomeChunkFailed ==
    \E j \in DOMAIN job_error : job_error[j] \in {"request", "checksum"}

\* C2: once a chunk has failed for good, download returns, and what it
\* returns is an error: in every state after the failure download has
\* returned an error or some task can still take a step.
C2_FailureEndsInOneError ==
    SomeChunkFailed => (result = "err" \/ (result = "none" /\ ENABLED Next))

\* C3: once a chunk has used up its three verification rounds, no worker
\* begins processing another chunk.
C3_NoJobBeginsAfterExhaustion ==
    [][(\E j \in DOMAIN job_error : job_error[j] = "checksum")
          => \A w \in DOMAIN workers :
                 ~(workers[w].st = "idle" /\ w \in DOMAIN workers' /\ workers'[w].st = "fetch")]_vars

\* C5: download does not return Ok when its writer task has failed.
C5_WriterFailureFailsDownload ==
    writer = "err" => result # "ok"

\* C6: after a successful run (download returned Ok, the writer ended without
\* an error) the target file holds, at every chunk's range, the bytes fetched
\* for that chunk, whatever the order of fetch completions and writes was.
C6_ContentIndependentOfOrder ==
    (result = "ok" /\ writer = "ok") =>
        \A j \in 1..Len(Ranges) :
            /\ forwarded[j] # <<>>
            /\ Ranges[j].end < Len(TargetBytes)
            /\ SubSeq(TargetBytes, Ranges[j].start + 1, Ranges[j].end + 1)
                   = forwarded[j][1].downloaded_bytes

\* A successful run of three chunks fetched by two workers.
C6_Witness ==
    /\ result = "ok"
    /\ writer = "ok"
    /\ Len(Ranges) = 3
    /\ Len(workers) = 2

\* C10: for a chunk with a checksum download_chunk issues at most 3 range
\* requests; it sends at most one WriteFileChunk, at offset chunk.start and
\* with bytes that hash to the chunk's digest, and fetches no more after it;
\* after three mismatches the job fails and nothing was sent.
C10_VerifiedChunkForwardedOnce ==
    call # None =>
        \A j \in 1..Len(Ranges) :
            Ranges[j].checksum # None =>
                /\ fetches[j] <= 3
                /\ Len(forwarded[j]) <= 1
                /\ forwarded[j] # <<>> =>
                       /\ forwarded[j][1].offset = Ranges[j].start
                       /\ Digest(Unwrap(Ranges[j].checksum).hash_type, forwarded[j][1].downloaded_bytes)
                              = Unwrap(Ranges[j].checksum).checksum
                       /\ \A w \in DOMAIN workers :
                              ~(workers[w].st = "fetch" /\ workers[w].job = j)
                /\ job_error[j] = "checksum" => (fetches[j] = 3 /\ forwarded[j] = <<>>)

\* One chunk forwarded in its third round and another failed after three
\* mismatches.
C10_Witness ==
    /\ call # None
    /\ \E j, k \in 1..Len(Ranges) :
           /\ fetches[j] = 3
           /\ forwarded[j] # <<>>
           /\ job_error[k] = "checksum"
           /\ fetches[k] = 3

\* C4: the chunked download of download-file returns Ok only if no chunk
\* failed and every chunk was fetched and handed to the writer.
C4_ChunkFailureFailsDownloadFile ==
    result = "ok" =>
        \A j \in 1..Len(Ranges) : job_error[j] = "none" /\ forwarded[j] # <<>>

\* ---------------------------------------------------------------- properties of the worker pool

FileFailed ==
    \/ writer = "err"
    \/ \E j \in DOMAIN job_error : job_error[j] \in {"request", "checksum"}
    \/ (call = None /\ result = "err")

\* C12: once the download of a file has failed, download-metalink starts no
\* file later in the plan and does not return Ok (it returns that file's
\* error).
C12_FirstFailureEndsTheRun ==
    [][FileFailed => (started' = started /\ run_result' # "ok")]_vars

\* Plan::new or minimize_plan returned an error, which the run returns.
PlanningFailed == pc = "failed"

\* C13: when plan construction or minimization fails, the run has returned
\* without having created the HTTP client and without any HTTP request: no
\* file's download was started and no download call was made.
C13_NoNetworkBeforePlanningError ==
    PlanningFailed =>
        /\ ~client
        /\ started = <<>>
        /\ call = None
        /\ fetches = <<>>

\* A run on a plan of two files whose minimization failed on a file that is
\* on disk.
C13_Witness ==
    /\ PlanningFailed
    /\ plan.ok
    /\ Len(OkVal(plan).files) = 2

\* A descriptor with no size, no pieces and no whole-file hash.
Unsized(file) == file.size = None /\ file.pieces = None /\ file.hashes = None

\* C14: a manifest file with no size, no pieces and no whole-file hash is
\* kept by minimization and downloaded whole; the run does not abort because
\* the size is unknown.
C14_UnsizedFileDoesNotAbort ==
    (plan.ok /\ \E i \in DOMAIN metalink : Unsized(metalink[i])) => pc # "panicked"

\* C15: a failed HTTP request is retried by the client, up to 5 attempts in
\* total: a chunk's request error reaches download_chunk's caller only after
\* at least 5 range requests were sent for the chunk.
C15_RequestErrorAfterFiveAttempts ==
    \A j \in DOMAIN job_error : job_error[j] = "request" => fetches[j] >= 5

\* ---------------------------------------------------------------- properties of checksums

\* C16: validating a buffer or a file against a checksum whose algorithm is
\* SHAKE128 or SHAKE256 yields an unsupported-algorithm error returned as a
\* value (not an abort).
C16_ShakeIsAnErrorValue ==
    (check_ret # None /\ check_args.checksum.hash_type \in {"shake128", "shake256"})
        => Unwrap(check_ret) = "unsupported"

\* ---------------------------------------------------------------- properties of the run's bounds

\* C17: during download-metalink the number of files whose download is in
\* progress at the same time never exceeds max_parallel_files.
C17_ParallelFilesBounded ==
    Cardinality(in_progress) <= max_parallel_files

\* The second file of a plan being downloaded under max_parallel_files = 1.
C17_Witness ==
    /\ max_parallel_files = 1
    /\ in_progress = {2}
    /\ started = <<1, 2>>

\* The workers of the running download call that are inside a range request.
Fetching == {w \in DOMAIN workers : workers[w].st = "fetch"}

\* C18: at every moment of a download the number of chunk fetches in flight
\* is at most the worker-pool size W, and the number of jobs dispatched but
\* not yet taken by a worker is at most the queue capacity W.
C18_InFlightAndQueueBounded ==
    call # None =>
        /\ Cardinality(Fetching) <= Unwrap(call).available_parallelism
        /\ Len(job_queue) <= Unwrap(call).available_parallelism

\* A pool of two workers whose queue is full while a fetch is in flight.
C18_Witness ==
    /\ call # None
    /\ Unwrap(call).available_parallelism = 2
    /\ Len(job_queue) = 2
    /\ Cardinality(Fetching) = 1

\* ---------------------------------------------------------------- properties of FilePlan::new

\* The one file descriptor of the manifest.
TheFile == metalink[1]

\* C19: FilePlan::new fails when pieces are present but the size is absent,
\* when the url list is present but empty, and when the url list is absent;
\* when it succeeds the url is the first of the list in manifest order,
\* whatever the priorities, and the target path is the file name inside the
\* base directory.
C19_FilePlanNewUrlsAndSize ==
    pc # "start" =>
        /\ (TheFile.pieces # None /\ TheFile.size = None) => ~plan.ok
        /\ TheFile.urls = Some(<<>>) => ~plan.ok
        /\ TheFile.urls = None => ~plan.ok
        /\ plan.ok =>
               /\ Len(OkVal(plan).files) = 1
               /\ OkVal(plan).files[1].url = Unwrap(TheFile.urls)[1].url
               /\ OkVal(plan).files[1].target_file = <<TargetDir, TheFile.name>>

\* A plan built for a file with pieces whose first url is not the one of best
\* priority.
C19_Witness ==
    /\ pc # "start"
    /\ plan.ok
    /\ TheFile.pieces # None
    /\ Len(Unwrap(TheFile.urls)) = 2
    /\ Unwrap(TheFile.urls)[1].priority = Some(2)
    /\ OkVal(plan).files[1].url = "url1"

\* ---------------------------------------------------------------- properties of calculate_ranges

\* The (start, end) pairs of the returned ranges.
ReturnedPairs == [i \in 1..Len(ReturnedRanges) |-> <<ReturnedRanges[i].start, ReturnedRanges[i].end>>]

\* C20: for total_size > 0 and block_size > 0 calculate_ranges returns
\* exactly ceil(total_size / block_size) ranges, every one but the last of
\* size block_size and the last of size 1..block_size; total_size <=
\* block_size yields the single range [0, total_size - 1]; (5,10) -> [(0,4)],
\* (10,10) -> [(0,9)], (15,10) -> [(0,9),(10,14)].
C20_RangeCountAndSizes ==
    range_ret # None =>
        LET R == ReturnedRanges
            total_size == range_args[1]
            block_size == range_args[2]
        IN  /\ Len(R) = (total_size + block_size - 1) \div block_size
            /\ \A i \in 1..(Len(R) - 1) : R[i].end - R[i].start + 1 = block_size
            /\ R[Len(R)].end - R[Len(R)].start + 1 \in 1..block_size
            /\ total_size <= block_size => ReturnedPairs = <<<<0, total_size - 1>>>>
            /\ range_args = <<5, 10>> => ReturnedPairs = <<<<0, 4>>>>
            /\ range_args = <<10, 10>> => ReturnedPairs = <<<<0, 9>>>>
            /\ range_args = <<15, 10>> => ReturnedPairs = <<<<0, 9>>, <<10, 14>>>>

\* The call calculate_ranges(15, 10) has returned its two ranges.
C20_Witness ==
    /\ range_ret # None
    /\ range_args = <<15, 10>>
    /\ Len(ReturnedRanges) = 2

\* ---------------------------------------------------------------- properties of minimize_plan

\* Whether the bytes of a planned file's target hash to its whole-file checksum.
WholeFileMatches(file) ==
    /\ file.file_checksums # None
    /\ Digest(Unwrap(file.file_checksums).hash_type, Unwrap(fs[file.target_file]))
           = Unwrap(file.file_checksums).checksum

\* C21: minimize_plan keeps a file plan unchanged when its target file does
\* not exist; an existing file without a chunk list is dropped if and only if
\* it has a whole-file checksum that matches the bytes on disk, and is kept
\* unchanged when the checksum does not match or when it has no checksum.
C21_WholeFileMinimization ==
    pc = "minimized" =>
        \A i \in 1..Len(PlannedFiles) :
            LET file == PlannedFiles[i]
                kept == KeptEntries(file.target_file)
            IN  /\ fs[file.target_file] = None => kept = <<file>>
                /\ (fs[file.target_file] # None /\ file.chunks = None) =>
                       /\ kept = <<>> <=> WholeFileMatches(file)
                       /\ ~WholeFileMatches(file) => kept = <<file>>

\* A minimized plan of two files on disk without chunks: one whose checksum
\* matches, one that has no checksum.
C21_Witness ==
    /\ pc = "minimized"
    /\ \E i, j \in 1..Len(PlannedFiles) :
           /\ fs[PlannedFiles[i].target_file] # None
           /\ PlannedFiles[i].chunks = None
           /\ WholeFileMatches(PlannedFiles[i])
           /\ fs[PlannedFiles[j].target_file] # None
           /\ PlannedFiles[j].chunks = None
           /\ PlannedFiles[j].file_checksums = None

\* The bytes the entry of a minimized plan stands for: the sizes end - start + 1
\* of its chunks, or the file's size when it has no chunk list.
EntryBytes(entry) ==
    IF entry.chunks # None
    THEN SumSeq([k \in 1..Len(Unwrap(entry.chunks)) |->
             Unwrap(entry.chunks)[k].end - Unwrap(entry.chunks)[k].start + 1])
    ELSE Unwrap(entry.file_size)

\* C22: after minimize_plan, total_size is the sum over the kept files of the
\* sizes (end - start + 1) of the kept chunks for a file with a chunk list and
\* of the full file size for a file without one.
C22_TotalSizeIsRemainingWork ==
    pc = "minimized" =>
        minimized.total_size
            = SumSeq([i \in 1..Len(minimized.files) |-> EntryBytes(minimized.files[i])])

\* A minimized plan that keeps a file with fewer chunks than planned next to a
\* file without a chunk list.
C22_Witness ==
    /\ pc = "minimized"
    /\ \E i, j \in 1..Len(minimized.files) :
           /\ minimized.files[i].chunks # None
           /\ \E k \in 1..Len(PlannedFiles) :
                  /\ PlannedFiles[k].target_file = minimized.files[i].target_file
                  /\ Len(Unwrap(PlannedFiles[k].chunks)) > Len(Unwrap(minimized.files[i].chunks))
           /\ minimized.files[j].chunks = None

\* ---------------------------------------------------------------- properties of hash-function names

\* C23: each of the nine hash-function names parses (from_str and try_from)
\* to its variant, formatting that variant gives the same name back, so that
\* parsing the formatted text gives the variant again; every other string
\* fails to parse with HashParseError.
C23_NamesRoundTrip ==
    /\ Len(HASH_NAMES) = 9
    /\ hash_parsed # None =>
           /\ \A k \in 1..Len(HASH_NAMES) :
                  hash_input = HASH_NAMES[k][1] => Unwrap(hash_parsed).ret = Ok(HASH_NAMES[k][2])
           /\ (\A k \in 1..Len(HASH_NAMES) : hash_input # HASH_NAMES[k][1])
                  => Unwrap(hash_parsed).ret = ErrOf("HashParseError")
    /\ hash_text # None => Unwrap(hash_text).text = hash_input
    /\ hash_reparsed # None => Unwrap(hash_reparsed).ret = Unwrap(hash_parsed).ret

\* "sha-1" parsed with from_str, formatted with Display and parsed again with
\* try_from.
C23_Witness ==
    /\ hash_input = "sha-1"
    /\ hash_parsed # None /\ Unwrap(hash_parsed).by = "from_str"
    /\ hash_text # None /\ Unwrap(hash_text).by = "fmt"
    /\ hash_reparsed # None /\ Unwrap(hash_reparsed).by = "try_from"

\* ---------------------------------------------------------------- properties of FileBuilder

\* Whether an optional list is set and holds at least one element.
NonEmptyList(o) == o # None /\ Len(Unwrap(o)) >= 1

\* C24: FileBuilder::build succeeds if and only if a name is set and the url
\* list or the metaurl list holds at least one element; otherwise it returns
\* a MetalinkConstructionError.
C24_BuildNeedsNameAndSource ==
    build_ret # None =>
        /\ Unwrap(build_ret).ok
               <=> (builder.name # None /\ (NonEmptyList(builder.url) \/ NonEmptyList(builder.metaurl)))
        /\ ~Unwrap(build_ret).ok => Unwrap(build_ret) = ErrOf("MetalinkConstructionError")

\* A file element built from a name, an empty url list and one metaurl.
C24_Witness ==
    /\ build_ret # None
    /\ Unwrap(build_ret).ok
    /\ builder.url = Some(<<>>)
    /\ NonEmptyList(builder.metaurl)

\* ---------------------------------------------------------------- properties of the writer's shutdown

\* Whether FinishWriting is in the writer's inbox.
FinishQueued == \E k \in 1..Len(inbox) : inbox[k] = FinishWriting

\* The bytes of all the chunks the running download call was given.
RangesBytes == SumSeq([j \in 1..Len(Ranges) |-> chunk_size(Ranges[j])])

\* C25: in a download that returns Ok, FinishWriting is enqueued only after
\* every chunk's job was acknowledged, every chunk's WriteFileChunk was
\* enqueued before it and nothing after it, so that the writer has written
\* every chunk when it stops, and download returns only after the writer
\* task has ended.
C25_FinishWritingAfterEveryChunk ==
    /\ FinishQueued =>
           /\ inbox[Len(inbox)] = FinishWriting
           /\ \A k \in 1..(Len(inbox) - 1) : inbox[k].kind = "WriteFileChunk"
           /\ \A j \in 1..Len(Ranges) : job_done[j] = "sent" /\ forwarded[j] # <<>>
    /\ result = "ok" =>
           /\ \A j \in 1..Len(Ranges) : job_done[j] = "sent" /\ forwarded[j] # <<>>
           /\ writer \in {"ok", "err"}
           /\ bytes_written = RangesBytes

\* ---------------------------------------------------------------- properties of cancellation

\* C26: a worker observes cancellation only while it waits for the next job:
\* it ends on cancellation only from its idle state, and a worker that has
\* taken a job leaves it only by completing a range request of that job (to
\* retry, forward or fail), whether or not the token is cancelled meanwhile.
C26_CancellationOnlyBetweenJobs ==
    [][\A w \in DOMAIN workers :
           (w \in DOMAIN workers' /\ call' = call) =>
               /\ (workers[w].st # "ok" /\ workers'[w].st = "ok")
                      => (workers[w].st = "idle" /\ cancelled)
               /\ (workers[w].st = "fetch" /\ workers'[w] # workers[w])
                      => fetches'[workers[w].job] = fetches[workers[w].job] + 1]_vars

\* The token was cancelled early and a worker is in the second round of a job.
C26_Witness ==
    /\ cancelled
    /\ dpc \in {"send", "join"}
    /\ \E w \in DOMAIN workers : workers[w].st = "fetch" /\ workers[w].attempt = 1

\* ---------------------------------------------------------------- properties of file ownership

\* Whether a file writer task is alive (spawned and not ended); it holds the
\* open handle of its target file from File::create until it ends.
WriterAlive == writer \in {"spawned", "running"}

\* C27: at most one task holds an open write handle on a target file: a
\* download spawns its file writer only when no writer task is alive, and
\* while a download is running every change of its target file is a step of
\* that writer task, which leaves the dispatcher and the workers as they are.
\* (A file without chunks has no download call: simple_download writes it.)
C27_OnlyTheWriterWrites ==
    [][/\ (call' # call /\ call' # None) => ~WriterAlive
       /\ \A t \in DOMAIN fs :
              fs'[t] # fs[t] =>
                  \/ /\ call # None
                     /\ call' = call
                     /\ Unwrap(call).target_file = t
                     /\ WriterAlive
                     /\ (writer' # writer \/ (inbox # <<>> /\ inbox' = Tail(inbox)))
                     /\ workers' = workers
                     /\ dispatchVars' = dispatchVars
                  \/ /\ pc = "loop"
                     /\ call' = None
                     /\ minimized.files[cur_file].chunks = None
                     /\ minimized.files[cur_file].target_file = t]_vars

\* The writer of the second file of a run has written a chunk.
C27_Witness ==
    /\ pc = "downloading"
    /\ call # None
    /\ cur_file = 2
    /\ Len(started) = 2
    /\ writer = "running"
    /\ bytes_written > 0

\* ---------------------------------------------------------------- properties of progress reporting

\* Whether Finished is in the progress reporter's channel.
FinishedQueued == \E k \in 1..Len(prog_inbox) : prog_inbox[k] = Finished

\* C28: in a successful download-metalink run every Progressed(n) a file
\* writer emits is received by the progress task before Finished: Finished is
\* queued behind every Progressed, no writer is left to emit one after it,
\* the task ends on Finished, and when the run returns Ok the task has ended
\* with a running total equal to the sum of all n emitted.
C28_ProgressReceivedBeforeFinished ==
    /\ FinishedQueued =>
           /\ prog_inbox[Len(prog_inbox)] = Finished
           /\ \A k \in 1..(Len(prog_inbox) - 1) : prog_inbox[k].kind = "Progressed"
           /\ ~WriterReceives
    /\ (reporter = "done" /\ pc \in {"loop", "downloading", "await"}) => pc = "await"
    /\ run_result = "ok" =>
           /\ reporter = "done"
           /\ prog_inbox = <<>>
           /\ bytes_downloaded = progressed

\* A run of two files that returned Ok after the writers emitted three
\* bytes of progress or more.
C28_Witness ==
    /\ run_result = "ok"
    /\ Len(started) = 2
    /\ progressed >= 3

\* C29: when download-metalink returns Ok, the progress task's final running
\* total equals the minimized plan's total_size, whether the plan's files
\* have a chunk list or are downloaded whole.
C29_FinalTotalIsPlanSize ==
    run_result = "ok" => bytes_downloaded = minimized.total_size

\* ---------------------------------------------------------------- properties of job dispatch

\* The chunks in the job queue, as a set.
Queued == {job_queue[k] : k \in 1..Len(job_queue)}

\* The workers that are processing chunk j.
Holders(j) == {w \in DOMAIN workers : workers[w].st = "fetch" /\ workers[w].job = j}

\* C30: in download every chunk is enqueued as a job exactly once (in order,
\* when the dispatch loop reaches it) and taken by exactly one worker, which
\* removes it from the queue, no request having been made for it before; no
\* chunk is held by two workers; and when download returns Ok every chunk
\* was enqueued, fetched and has yielded exactly one WriteFileChunk.
C30_EachChunkOneJobOneWorker ==
    [][(call # None /\ call' = call) =>
           /\ \A j \in Queued' \ Queued :
                  /\ j = next_job
                  /\ next_job' = j + 1
                  /\ job_done[j] = "unsent"
                  /\ Len(job_queue') = Len(job_queue) + 1
           /\ next_job' >= next_job
           /\ Cardinality(Queued') = Len(job_queue')
           /\ \A w \in DOMAIN workers :
                  (workers[w].st # "fetch" /\ workers'[w].st = "fetch") =>
                      LET j == workers'[w].job
                      IN  /\ job_queue # <<>>
                          /\ j = Head(job_queue)
                          /\ job_queue' = Tail(job_queue)
                          /\ fetches[j] = 0
                          /\ Holders(j) = {}
                          /\ \A v \in DOMAIN workers \ {w} : workers'[v] = workers[v]
           /\ \A j \in 1..Len(Ranges) :
                  /\ Cardinality({w \in DOMAIN workers' :
                         workers'[w].st = "fetch" /\ workers'[w].job = j}) <= 1
                  /\ (j \in Queued' \/ j >= next_job') =>
                         (fetches'[j] = 0 /\ forwarded'[j] = <<>>)
           /\ result' = "ok" =>
                  /\ next_job' = Len(Ranges) + 1
                  /\ \A j \in 1..Len(Ranges) :
                         fetches'[j] >= 1 /\ Len(forwarded'[j]) = 1]_vars

\* A download of three chunks by two workers that returned Ok, one chunk
\* having been fetched more than once.
C30_Witness ==
    /\ result = "ok"
    /\ Len(Ranges) = 3
    /\ Len(workers) = 2
    /\ \E j \in 1..Len(Ranges) : fetches[j] >= 2
    /\ \A j \in 1..Len(Ranges) : Len(forwarded[j]) = 1

\* ---------------------------------------------------------------- the tasks of a download under fair scheduling

\* The steps of the task that runs download_metalink, download_file_task and
\* download itself (they await one another; none is spawned).
MainTask ==
    \/ PlanNew
    \/ MinimizePlan
    \/ MakeClient
    \/ DownloadStart
    \/ DispatchJob
    \/ JoinJobs
    \/ WaitTasks
    \/ FileReturned
    \/ FinishRun
    \/ AwaitReporter

\* The steps of the w-th download_worker task the tracker spawned.
WorkerTask(w) ==
    /\ w \in DOMAIN workers
    /\ \/ WorkerTakeJob(w)
       \/ WorkerFetch(w)
       \/ WorkerCancelled(w)
       \/ WorkerRecvClosed(w)

\* The steps of the file_writer_task the tracker spawned.
WriterTask == WriterStart \/ WriterStep \/ WriterChannelClosed

\* The steps of the progress_reporter_task.
ReporterTask == ReporterStep \/ ReporterChannelClosed

\* One file of two chunks that is not on disk, with one or two workers.
InitLive ==
    /\ PlanInputs({2}, {1}, {1}, {"pieces"})
    /\ fs[Path_join(TargetDir, 1)] = None
    /\ RangesIdle
    /\ max_threads \in {2, 3}
    /\ NoDownload
    /\ max_parallel_files = 1
    /\ NoRun
    /\ NoValidation
    /\ NoLibraryCall
    /\ NoRangeLoop

\* The tokio runtime polls every task that can make progress: each spawned
\* task, and the main task, takes a step that stays possible.
SpecLive ==
    /\ InitLive
    /\ [][Next]_vars
    /\ WF_vars(MainTask)
    /\ \A w \in 1..MaxThreads : WF_vars(WorkerTask(w))
    /\ WF_vars(WriterTask)
    /\ WF_vars(ReporterTask)

\* ---------------------------------------------------------------- properties of termination

\* Whether every worker task and the writer task of the download have ended.
TasksEnded ==
    /\ writer \in {"ok", "err"}
    /\ \A w \in DOMAIN workers : workers[w].st \in {"ok", "err"}

\* Whether a range request, a verification or a filesystem operation of the
\* running download has failed for good.
DownloadFault ==
    \/ writer = "err"
    \/ \E j \in DOMAIN job_error : job_error[j] # "none"
    \/ \E j \in DOMAIN job_done : job_done[j] = "dropped"
    \/ result \in {"err", "panic"}

\* C31: a download with at least one worker whose range requests all end in
\* bytes that validate and whose filesystem operations all succeed eventually
\* returns Ok, and when it has returned Ok every worker task and the writer
\* task have ended.
C31_DownloadTerminates ==
    /\ [](result = "ok" => TasksEnded)
    /\ (dpc = "send") ~> (result = "ok" \/ DownloadFault)

\* A download with two workers has returned Ok with nothing having failed; a
\* chunk of it needed a second request.
C31_Witness ==
    /\ result = "ok"
    /\ ~DownloadFault
    /\ Len(workers) = 2
    /\ \E j \in DOMAIN fetches : fetches[j] = 2

\* Whether download has returned its "Job failed" error: join_all resolved
\* with the completion of some job dropped.
JobFailedReturned ==
    /\ result = "err"
    /\ dpc = "done"
    /\ \E j \in DOMAIN job_done : job_done[j] = "dropped"

\* C32: once download has returned an error because a job failed, every
\* worker task and the writer task eventually end, although the token is not
\* cancelled and FinishWriting is not sent: the workers end on the closed job
\* channel, the writer on its closed command channel (or on an error).
C32_TasksEndAfterJobFailed ==
    /\ [](JobFailedReturned => (~cancelled /\ ~FinishQueued))
    /\ [][(JobFailedReturned /\ writer # "ok" /\ writer' = "ok")
              => (inbox = <<>> /\ ~SendersAlive)]_vars
    /\ JobFailedReturned ~> TasksEnded

\* After a "Job failed" return both workers have ended with an error, one of
\* them without a failed job of its own, and the writer has ended with Ok.
C32_Witness ==
    /\ JobFailedReturned
    /\ ~cancelled
    /\ writer = "ok"
    /\ Len(workers) = 2
    /\ \A w \in DOMAIN workers : workers[w].st = "err"
    /\ \E j \in DOMAIN job_error : job_error[j] # "none"
    /\ \E j \in DOMAIN job_error : job_error[j] = "none"

\* ---------------------------------------------------------------- properties of to_chunk_metadata

\* Whether the manifest file has what FilePlan::new needs besides its pieces:
\* a size and a non-empty url list.
PiecesDecide ==
    /\ pc # "start"
    /\ TheFile.pieces # None
    /\ TheFile.size # None
    /\ TheFile.urls # None
    /\ Unwrap(TheFile.urls) # <<>>

\* C33: to_chunk_metadata fails exactly when the number of ranges of (total
\* size, piece length), which is ceil(size / length), differs from the number
\* of piece hashes; when it succeeds there is one chunk per piece hash, the
\* i-th chunk being the i-th range of the file and carrying the i-th piece
\* hash with the algorithm of the pieces element.
C33_ChunksCarryPieceHashes ==
    PiecesDecide =>
        LET pieces == Unwrap(TheFile.pieces)
            size == Unwrap(TheFile.size)
        IN  /\ ~plan.ok <=> NumPieces(size, pieces.length) # Len(pieces.hashes)
            /\ plan.ok =>
                   LET chunks == Unwrap(OkVal(plan).files[1].chunks)
                   IN  /\ Len(chunks) = Len(pieces.hashes)
                       /\ \A i \in 1..Len(chunks) :
                              /\ chunks[i].start = PieceStart(i, pieces.length)
                              /\ chunks[i].end = PieceEnd(i, size, pieces.length)
                              /\ chunks[i].checksum # None
                              /\ Unwrap(chunks[i].checksum).hash_type = pieces.hash_type
                              /\ Unwrap(chunks[i].checksum).checksum = pieces.hashes[i].value

\* A plan of two md5 chunks was built from a pieces element of two hashes.
C33_Witness ==
    /\ PiecesDecide
    /\ plan.ok
    /\ Len(Unwrap(OkVal(plan).files[1].chunks)) = 2
    /\ Unwrap(TheFile.pieces).hash_type = "md5"

\* ---------------------------------------------------------------- properties of the whole-file checksum

\* The algorithms from weakest to strongest.
HashOrder ==
    <<"md2", "md5", "sha-1", "sha-224", "sha-256", "sha-384", "sha-512", "shake128", "shake256">>

\* The place of an algorithm in that order.
HashPlace(hash_type) == CHOOSE k \in 1..Len(HashOrder) : HashOrder[k] = hash_type

\* The hash elements of the manifest file (none when the list is absent) and
\* the positions of those that declare a type.
FileHashes == IF TheFile.hashes = None THEN <<>> ELSE Unwrap(TheFile.hashes)
TypedHashes == {i \in 1..Len(FileHashes) : FileHashes[i].hash_type # None}

\* C34: the whole-file checksum of a plan FilePlan::new builds is the hash of
\* the greatest algorithm, in the order md2 < md5 < sha-1 < sha-224 < sha-256
\* < sha-384 < sha-512 < shake128 < shake256, among the hashes of the file
\* that declare a type; the plan has no whole-file checksum when no hash
\* declares a type.
C34_StrongestTypedHash ==
    (pc # "start" /\ plan.ok) =>
        LET file_checksums == OkVal(plan).files[1].file_checksums
        IN  /\ TypedHashes = {} => file_checksums = None
            /\ TypedHashes # {} =>
                   /\ file_checksums # None
                   /\ \E i \in TypedHashes :
                          /\ Unwrap(file_checksums).hash_type = Unwrap(FileHashes[i].hash_type)
                          /\ Unwrap(file_checksums).checksum = FileHashes[i].value
                          /\ \A j \in TypedHashes :
                                 HashPlace(Unwrap(FileHashes[j].hash_type))
                                     <= HashPlace(Unwrap(FileHashes[i].hash_type))

\* A plan whose whole-file checksum is the shake256 hash, listed between a
\* shake128 and a sha-512 hash.
C34_Witness ==
    /\ pc # "start"
    /\ plan.ok
    /\ Len(FileHashes) = 3
    /\ FileHashes[2].hash_type = Some("shake256")
    /\ OkVal(plan).files[1].file_checksums # None
    /\ Unwrap(OkVal(plan).files[1].file_checksums).hash_type = "shake256"

\* ---------------------------------------------------------------- properties of unverified chunks

\* C35: download_chunk on a chunk without a checksum makes one range request
\* and no more; if the request succeeds its body, whatever it is, is sent to
\* the writer once at offset chunk.start and the call returns Ok; if the
\* request fails the call returns the error with nothing sent, and no such
\* call fails on a checksum.
C35_UnverifiedChunkOneRequest ==
    call # None =>
        \A j \in 1..Len(Ranges) :
            ~has_checksum(Ranges[j]) =>
                /\ fetches[j] <= 1
                /\ \A t \in DOMAIN workers : workers[t].job = j => workers[t].attempt = 0
                /\ job_error[j] \in {"none", "request", "send"}
                /\ job_error[j] # "none" => (fetches[j] = 1 /\ forwarded[j] = <<>>)
                /\ (fetches[j] = 1 /\ job_error[j] = "none") =>
                       /\ Len(forwarded[j]) = 1
                       /\ forwarded[j][1].kind = "WriteFileChunk"
                       /\ forwarded[j][1].offset = Ranges[j].start
                       /\ forwarded[j][1].downloaded_bytes \in
                              {ContentBytes(Ranges[j].start, Ranges[j].end),
                               CorruptBytes(chunk_size(Ranges[j]))}
                /\ fetches[j] = 0 => forwarded[j] = <<>>

\* Of two chunks without a checksum, the second one's request returned a
\* corrupt body, which was forwarded at its offset, and the first one's
\* request failed, with nothing forwarded.
C35_Witness ==
    /\ call # None
    /\ Len(Ranges) >= 2
    /\ ~has_checksum(Ranges[1])
    /\ ~has_checksum(Ranges[2])
    /\ job_error[1] = "request"
    /\ forwarded[1] = <<>>
    /\ forwarded[2] = <<WriteFileChunk(Ranges[2].start, CorruptBytes(chunk_size(Ranges[2])))>>

\* ---------------------------------------------------------------- properties of chunked file plans

\* Whether a file plan that has a chunk list has a size and at least one chunk.
ChunkedPlanIsSized(file) ==
    file.chunks # None => (file.file_size # None /\ Unwrap(file.chunks) # <<>>)

\* C36: every file plan of a plan Plan::new has built, and every file plan of
\* a plan minimize_plan has returned, that has a chunk list has a known size
\* and at least one chunk (what download_file_task hands to download).
C36_ChunkedPlansAreSized ==
    /\ (pc # "start" /\ plan.ok) =>
           \A i \in 1..Len(OkVal(plan).files) : ChunkedPlanIsSized(OkVal(plan).files[i])
    /\ pc = "minimized" =>
           \A i \in 1..Len(minimized.files) : ChunkedPlanIsSized(minimized.files[i])

\* minimize_plan has kept one of the two chunks of a file that is partly on
\* disk.
C36_Witness ==
    /\ pc = "minimized"
    /\ Len(minimized.files) = 1
    /\ minimized.files[1].chunks # None
    /\ Len(Unwrap(minimized.files[1].chunks)) = 1
    /\ Len(Unwrap(OkVal(plan).files[1].chunks)) = 2

\* ---------------------------------------------------------------- properties of what minimize_plan keeps

\* Whether s can be had from t by leaving elements out.
RECURSIVE IsSubsequence(_, _)
IsSubsequence(s, t) ==
    IF s = <<>> THEN TRUE
    ELSE IF t = <<>> THEN FALSE
    ELSE IF Head(s) = Head(t) THEN IsSubsequence(Tail(s), Tail(t))
    ELSE IsSubsequence(s, Tail(t))

\* A file plan without its chunk list.
PlanFrame(file) ==
    [target_file |-> file.target_file, url |-> file.url,
     file_checksums |-> file.file_checksums, file_size |-> file.file_size]

\* C37: the files minimize_plan keeps are, in their original order, files of
\* the plan with the same target path, url, whole-file checksum and size; a
\* kept file has a chunk list exactly if it had one, and its kept chunks are,
\* in their original order, chunks of the original list with the same start,
\* end and checksum.
C37_MinimizeKeepsOrderAndFields ==
    pc = "minimized" =>
        /\ IsSubsequence([i \in 1..Len(minimized.files) |-> PlanFrame(minimized.files[i])],
                         [i \in 1..Len(PlannedFiles) |-> PlanFrame(PlannedFiles[i])])
        /\ \A k \in 1..Len(minimized.files) :
               \E i \in 1..Len(PlannedFiles) :
                   /\ PlanFrame(PlannedFiles[i]) = PlanFrame(minimized.files[k])
                   /\ (minimized.files[k].chunks = None) <=> (PlannedFiles[i].chunks = None)
                   /\ minimized.files[k].chunks # None =>
                          IsSubsequence(Unwrap(minimized.files[k].chunks),
                                        Unwrap(PlannedFiles[i].chunks))

\* Both files of a plan were kept, the first with its whole-file checksum and
\* no chunks, the second with two of its three chunks.
C37_Witness ==
    /\ pc = "minimized"
    /\ Len(PlannedFiles) = 2
    /\ Len(minimized.files) = 2
    /\ minimized.files[1].chunks = None
    /\ minimized.files[1].file_checksums # None
    /\ minimized.files[2].chunks # None
    /\ Len(Unwrap(minimized.files[2].chunks)) = 2
    /\ Len(Unwrap(PlannedFiles[2].chunks)) = 3

\* ---------------------------------------------------------------- properties of range calculation on any input

\* C38: FilePlan::new returns for every file descriptor, a piece length of 0
\* and a size of 0 with pieces included: the range calculation neither
\* panics, nor runs until memory is exhausted, nor wraps an end below 0.
C38_FilePlanNewAlwaysReturns ==
    /\ pc \notin {"panicked", "aborted"}
    /\ \A i \in 1..Len(cr_ranges) : cr_ranges[i].end >= 0

====
